---- MODULE Spec2Model ----
(***************************************************************************)
(* A model of grafanalib's serialization core (src/grafanalib/core.py):    *)
(* the merge engine _deep_update, Panel.panel_json and the panel variants  *)
(* that hand mapping-valued fields to it, the auto-id / auto-refId         *)
(* assignment of Dashboard and Graph, Threshold serialization, the string  *)
(* validators (Pixels, Percent, is_interval, is_color_code), the alert     *)
(* rules AlertRulev8 / AlertRulev9, Template and Dashboard.to_json_data.   *)
(*                                                                         *)
(* Python objects live in `heap`, a sequence indexed by address: every     *)
(* dict and every model instance is one heap object, and a value held in   *)
(* a dict or a field is either an immutable scalar or a reference to a     *)
(* heap object, so that aliasing and in-place mutation are visible.        *)
(***************************************************************************)
EXTENDS Integers, Sequences, FiniteSets, TLC

VARIABLES
    heap,   \* the object store: address -> object
    inp,    \* the inputs the scenario was built from, as plain values
    args,   \* the values (references included) the operation is called with
    out     \* the results returned so far, oldest first

vars == <<heap, inp, args, out>>

(***************************************************************************)
(* Values.  A value is a record [t, v]: t names its Python type and v is   *)
(* the payload.  "ref" values point into the heap; "map" and the entity    *)
(* tags are the plain (heap-free) form of a whole tree, used for the       *)
(* inputs and for comparing results.                                       *)
(***************************************************************************)
NoneV == [t |-> "none", v |-> 0]
IntV(n) == [t |-> "int", v |-> n]
StrV(s) == [t |-> "str", v |-> s]
BoolV(b) == [t |-> "bool", v |-> b]
FloatV(s) == [t |-> "float", v |-> s]
ListV(s) == [t |-> "list", v |-> s]
\* A string of capital letters, spelled by alphabet positions: <<1, 2>> is "AB".
LettersV(s) == [t |-> "letters", v |-> s]
RefV(a) == [t |-> "ref", v |-> a]
MapV(f) == [t |-> "map", v |-> f]
ObjV(cls, f) == [t |-> cls, v |-> f]

EmptyMap == <<>>

\* The classes of this model, and those whose instances have a to_json_data
\* method (the Panel base class has none).
Classes == {"Alertlist", "SqlTarget", "Svg", "GridPos", "Repeat", "Tooltip", "XAxis", "YAxis", "HeatmapColor",
            "Heatmap", "Ae3ePlotly", "BarChart", "Threshold",
            "Dashboard", "Row", "RowPanel", "Panel", "Graph", "Target",
            "Evaluator", "TimeRange", "AlertCondition", "AlertExpression",
            "AlertRulev8", "AlertRulev9", "Template"}
EntityClasses == Classes \ {"Panel"}

\* The order in which the keys of a caller-built dict were inserted: the
\* callers of this model insert in this order.
KeyOrder == <<"a", "b", "c", "h", "w", "x", "y", "cards", "cardPadding", "cardRound",
              "legend", "show", "heatmap", "options", "layout", "configuration",
              "title", "fieldConfig", "defaults", "thresholds", "mode", "unit",
              "gridPos", "span", "type", "extra">>

RECURSIVE SetToSeq(_)
SetToSeq(S) ==
    IF S = {} THEN <<>>
    ELSE LET x == CHOOSE y \in S : TRUE IN <<x>> \o SetToSeq(S \ {x})

KeysOf(f) ==
    SelectSeq(KeyOrder, LAMBDA k : k \in DOMAIN f)
    \o SetToSeq(DOMAIN f \ {KeyOrder[i] : i \in 1..Len(KeyOrder)})

(***************************************************************************)
(* Heap objects: [cls, ks, d].  For a dict, ks is the insertion order of   *)
(* its keys and d the key -> value map; for a model instance, ks lists     *)
(* the fields and d holds their values.                                    *)
(***************************************************************************)
DictObj(ks, d) == [cls |-> "dict", ks |-> ks, d |-> d]

IsRef(v) == v.t = "ref"
IsDict(h, v) == IsRef(v) /\ h[v.v].cls = "dict"
HasToJsonData(h, v) == IsRef(v) /\ h[v.v].cls \in EntityClasses
HasKey(h, a, k) == k \in DOMAIN h[a].d

\* base_dict[k] = v
SetItem(h, a, k, v) ==
    [h EXCEPT ![a] = [cls |-> @.cls,
                      ks |-> IF k \in DOMAIN @.d THEN @.ks ELSE Append(@.ks, k),
                      d |-> IF k \in DOMAIN @.d THEN [@.d EXCEPT ![k] = v]
                            ELSE @.d @@ (k :> v)]]

\* A dict literal {k1: v1, ...} with the keys in the order ks.
NewDict(h, ks, d) == [h |-> Append(h, DictObj(ks, d)), v |-> RefV(Len(h) + 1)]

(***************************************************************************)
(* Building the heap form of a plain tree and reading it back.             *)
(***************************************************************************)
\* Values that are objects of their own: mappings and model instances.
IsObject(val) == val.t = "map" \/ val.t \in Classes

\* Values that hold objects: objects, and lists with an object in them.
Compound(val) ==
    \/ IsObject(val)
    \/ val.t = "list" /\ \E i \in 1..Len(val.v) : IsObject(val.v[i])

RECURSIVE Alloc(_, _), AllocItems(_, _, _, _, _), AllocList(_, _, _)
Alloc(h, val) ==
    IF IsObject(val)
    THEN LET a == Len(h) + 1
             o == [cls |-> IF val.t = "map" THEN "dict" ELSE val.t,
                   ks |-> IF val.t = "map" THEN KeysOf(val.v) ELSE <<>>,
                   d |-> val.v]
             cks == SelectSeq(KeysOf(val.v), LAMBDA k : Compound(val.v[k]))
         IN  AllocItems(Append(h, o), a, val.v, cks, 1)
    ELSE IF Compound(val) THEN AllocList(h, val.v, <<>>)
    ELSE [h |-> h, v |-> val]

\* Replaces, one after the other, the compound values of object a by
\* references to their own objects.
AllocItems(h, a, f, ks, i) ==
    IF i > Len(ks) THEN [h |-> h, v |-> RefV(a)]
    ELSE LET r == Alloc(h, f[ks[i]])
         IN  AllocItems([r.h EXCEPT ![a].d[ks[i]] = r.v], a, f, ks, i + 1)

\* The references to the objects of s[lo..hi], allocated in list order; the
\* range is taken by halves, so that a long list needs no deep nesting.
RECURSIVE AllocRange(_, _, _, _)
The(S) == CHOOSE r \in S : TRUE
AllocOne(r) == [h |-> r.h, v |-> <<r.v>>]
AllocCat(vs, r) == [h |-> r.h, v |-> vs \o r.v]

AllocRange(h, s, lo, hi) ==
    IF lo > hi THEN [h |-> h, v |-> <<>>]
    ELSE IF lo = hi THEN AllocOne(Alloc(h, s[lo]))
    ELSE The({AllocCat(l.v, AllocRange(l.h, s, ((lo + hi) \div 2) + 1, hi)) :
                l \in {AllocRange(h, s, lo, (lo + hi) \div 2)}})

AllocListOf(r) == [h |-> r.h, v |-> ListV(r.v)]

\* The list of the references to the objects of list s, after acc.
AllocList(h, s, acc) == AllocListOf(AllocCat(acc, AllocRange(h, s, 1, Len(s))))

RECURSIVE Reify(_, _)
Reify(h, v) ==
    IF v.t = "list" THEN ListV([i \in 1..Len(v.v) |-> Reify(h, v.v[i])])
    ELSE IF ~IsRef(v) THEN v
    ELSE LET o == h[v.v]
         IN  [t |-> IF o.cls = "dict" THEN "map" ELSE o.cls,
              v |-> [k \in DOMAIN o.d |-> Reify(h, o.d[k])]]

(***************************************************************************)
(* to_json_data of the small entities that can sit inside a JSON tree.     *)
(* Each call builds a fresh dict from the instance's fields.               *)
(***************************************************************************)
\* The dict {key: self.field, ...} for the <<key, field>> pairs of tbl, as a
\* mapping not yet allocated: its values are the field values themselves.
FieldOf(tbl, k) == tbl[CHOOSE i \in 1..Len(tbl) : tbl[i][1] = k][2]

EntityJson(h, a, tbl) ==
    MapV([k \in {tbl[i][1] : i \in 1..Len(tbl)} |-> h[a].d[FieldOf(tbl, k)]])

GridPos_to_json_data(h, a) ==
    EntityJson(h, a, <<(<<"h", "h">>), (<<"w", "w">>), (<<"x", "x">>), (<<"y", "y">>)>>)

Repeat_to_json_data(h, a) ==
    EntityJson(h, a, <<(<<"direction", "direction">>), (<<"variable", "variable">>),
                       (<<"maxPerRow", "max_per_row">>)>>)

Tooltip_to_json_data(h, a) ==
    EntityJson(h, a, <<(<<"msResolution", "ms_resolution">>), (<<"shared", "shared">>),
                       (<<"sort", "sort">>), (<<"value_type", "value_type">>)>>)

XAxis_to_json_data(h, a) ==
    EntityJson(h, a, <<(<<"mode", "mode">>), (<<"name", "name">>),
                       (<<"values", "values">>), (<<"show", "show">>)>>)

YAxis_to_json_data(h, a) ==
    EntityJson(h, a, <<(<<"decimals", "decimals">>), (<<"format", "format">>),
                       (<<"label", "label">>), (<<"logBase", "log_base">>),
                       (<<"max", "max">>), (<<"min", "min">>), (<<"show", "show">>)>>)

HeatmapColor_to_json_data(h, a) ==
    EntityJson(h, a, <<(<<"mode", "mode">>), (<<"cardColor", "card_color">>),
                       (<<"colorScale", "color_scale">>), (<<"exponent", "exponent">>),
                       (<<"colorScheme", "color_scheme">>), (<<"max", "max">>),
                       (<<"min", "min">>)>>)

\* base_dict[k].to_json_data() inside _deep_update, by the class of the
\* object.  Panels never sit inside the tree of another panel of this model.
ToJsonData(h, a) ==
    Alloc(h,
          CASE h[a].cls = "GridPos" -> GridPos_to_json_data(h, a)
            [] h[a].cls = "Repeat" -> Repeat_to_json_data(h, a)
            [] h[a].cls = "Tooltip" -> Tooltip_to_json_data(h, a)
            [] h[a].cls = "XAxis" -> XAxis_to_json_data(h, a)
            [] h[a].cls = "YAxis" -> YAxis_to_json_data(h, a)
            [] h[a].cls = "HeatmapColor" -> HeatmapColor_to_json_data(h, a))

(***************************************************************************)
(* _deep_update(base_dict, extra_dict): merges extra into base IN PLACE.   *)
(* b is the address of base_dict, extra the value passed as extra_dict.    *)
(* The result is [h, ok]: ok = FALSE when extra_dict.items() raised        *)
(* AttributeError (extra_dict neither None nor a dict); whatever the loop  *)
(* had already written stays written.                                      *)
(***************************************************************************)
RECURSIVE DeepUpdate(_, _, _), DeepUpdateItems(_, _, _, _)
DeepUpdate(h, b, extra) ==
    IF extra = NoneV THEN [h |-> h, ok |-> TRUE]
    ELSE IF ~IsDict(h, extra) THEN [h |-> h, ok |-> FALSE]
    ELSE DeepUpdateItems(h, b, extra.v, 1)

\* base_dict[k] = base_dict[k].to_json_data(), r being what the call gave.
SetResolved(r, b, k) == SetItem(r.h, b, k, r.v)

\* if k in base_dict and hasattr(base_dict[k], "to_json_data"): ...
ResolveEntity(h, b, k) ==
    IF HasKey(h, b, k) /\ HasToJsonData(h, h[b].d[k])
    THEN SetResolved(ToJsonData(h, h[b].d[k].v), b, k)
    ELSE h

\* The same, a value that is no mapping replacing the mapping at k.
MergeOrReplace_Replacing(h, b, k, v) ==
    IF HasKey(h, b, k) /\ IsDict(h, h[b].d[k]) /\ IsDict(h, v)
    THEN DeepUpdate(h, h[b].d[k].v, v)
    ELSE [h |-> SetItem(h, b, k, v), ok |-> TRUE]

\* if k in base_dict and isinstance(base_dict[k], dict): recurse, else replace.
MergeOrReplace(h, b, k, v) ==
    IF HasKey(h, b, k) /\ IsDict(h, h[b].d[k])
    THEN DeepUpdate(h, h[b].d[k].v, v)
    ELSE [h |-> SetItem(h, b, k, v), ok |-> TRUE]

\* The loop after item i, r being the outcome of that item.
NextItem(r, b, e, i) == IF r.ok THEN DeepUpdateItems(r.h, b, e, i + 1) ELSE r

\* A merge that replaces at every key and never descends.
DeepUpdateItems_Shallow(h, b, e, i) ==
    IF i > Len(h[e].ks) THEN [h |-> h, ok |-> TRUE]
    ELSE DeepUpdateItems(SetItem(h, b, h[e].ks[i], h[e].d[h[e].ks[i]]), b, e, i + 1)

\* for k, v in extra_dict.items(), from the i-th item on.
DeepUpdateItems(h, b, e, i) ==
    IF i > Len(h[e].ks) THEN [h |-> h, ok |-> TRUE]
    ELSE NextItem(MergeOrReplace(ResolveEntity(h, b, h[e].ks[i]),
                                 b, h[e].ks[i], h[e].d[h[e].ks[i]]),
                  b, e, i)

(***************************************************************************)
(* Panel.panel_json(overrides): the envelope of common fields, then the    *)
(* variant's overrides merged into it, then the panel's extra_json.  The   *)
(* envelope is a fresh dict whose values are the panel's field values      *)
(* themselves (the same objects, not copies).  Result: [h, ok, v].         *)
(***************************************************************************)
\* res = {...}: the envelope, [h, v].
PanelEnvelope(h, p) ==
    LET f == h[p].d
        rep == h[f.repeat.v].d
    IN  Alloc(h, MapV(
            [cacheTimeout |-> f.cache_timeout,
             datasource |-> f.data_source,
             description |-> f.description,
             editable |-> f.editable,
             error |-> f.error,
             fieldConfig |->
                 MapV([defaults |->
                     MapV([thresholds |->
                         MapV([mode |-> f.threshold_type, steps |-> f.thresholds])])]),
             height |-> f.height,
             gridPos |-> f.grid_pos,
             hideTimeOverride |-> f.hide_time_override,
             id |-> f.id,
             interval |-> f.interval,
             links |-> f.links,
             maxDataPoints |-> f.max_data_points,
             minSpan |-> f.min_span,
             repeat |-> rep.variable,
             repeatDirection |-> rep.direction,
             maxPerRow |-> rep.max_per_row,
             span |-> f.span,
             targets |-> f.targets,
             timeFrom |-> f.time_from,
             timeShift |-> f.time_shift,
             title |-> f.title,
             transparent |-> f.transparent,
             transformations |-> f.transformations]))

\* _deep_update(res, overrides); _deep_update(res, self.extra_json);
\* return res.  res is the envelope as [h, v]; the result is [h, ok, v].
MergeSecond(u, res, second) == IF u.ok THEN DeepUpdate(u.h, res.v, second) ELSE u

Merged(u, res) == [h |-> u.h, ok |-> u.ok, v |-> res]

MergeBoth(res, first, second) ==
    Merged(MergeSecond(DeepUpdate(res.h, res.v.v, first), res.v, second), res.v)

\* The two merges in the other order: extra_json first, overrides last.
PanelJson_ExtraJsonFirst(h, p, overrides) ==
    MergeBoth(PanelEnvelope(h, p), h[p].d.extra_json, overrides)

\* The merges into an empty dict instead of the envelope.
PanelJson_NoEnvelope(h, p, overrides) ==
    MergeBoth(Alloc(h, MapV(EmptyMap)), overrides, h[p].d.extra_json)

PanelJson(h, p, overrides) ==
    MergeBoth(PanelEnvelope(h, p), overrides, h[p].d.extra_json)

\* self.panel_json(ov), ov being the overrides dict just built, as [h, v].
PanelJsonOf(ov, p) == PanelJson(ov.h, p, ov.v)

\* The dict Heatmap.to_json_data passes to panel_json.
Heatmap_overrides(h, p) ==
    LET f == h[p].d
    IN  Alloc(h, MapV(
            [cards |-> f.cards,
             color |-> HeatmapColor_to_json_data(h, f.color.v),
             dataFormat |-> f.data_format,
             heatmap |-> f.heatmap,
             hideZeroBuckets |-> f.hide_zero_buckets,
             highlightCards |-> f.highlight_cards,
             legend |-> f.legend,
             options |-> f.options,
             reverseYBuckets |-> f.reverse_y_buckets,
             tooltip |-> Tooltip_to_json_data(h, f.tooltip.v),
             type |-> StrV("heatmap"),
             xAxis |-> XAxis_to_json_data(h, f.x_axis.v),
             xBucketNumber |-> f.x_bucket_number,
             xBucketSize |-> f.x_bucket_size,
             yAxis |-> YAxis_to_json_data(h, f.y_axis.v),
             yBucketBound |-> f.y_bucket_bound,
             yBucketNumber |-> f.y_bucket_number,
             yBucketSize |-> f.y_bucket_size]))

Heatmap_to_json_data(h, p) == PanelJsonOf(Heatmap_overrides(h, p), p)

AE3E_PLOTLY_TYPE == "ae3e-plotly-panel"

\* The dict Ae3ePlotly.to_json_data passes to panel_json.
Ae3ePlotly_overrides(h, p) ==
    LET f == h[p].d
    IN  Alloc(h, MapV(
            [fieldConfig |-> MapV([defaults |-> MapV(EmptyMap), overrides |-> ListV(<<>>)]),
             options |-> MapV([configuration |-> MapV(EmptyMap),
                               data |-> f.data,
                               layout |-> MapV(EmptyMap),
                               onclick |-> f.click_script,
                               script |-> f.script]),
             type |-> StrV(AE3E_PLOTLY_TYPE)]))

\* plotly["options"][k] for k = "layout" / "configuration"; FALSE-tagged when
\* the subscript would raise.
PlotlyOption(h, plotly, k) ==
    LET o == h[plotly.v].d
    IN  IF "options" \in DOMAIN o /\ IsDict(h, o.options) /\ k \in DOMAIN h[o.options.v].d
        THEN [ok |-> TRUE, v |-> h[o.options.v].d[k]]
        ELSE [ok |-> FALSE, v |-> NoneV]

\* _deep_update(plotly["options"][k], self.<field>)
PlotlyMerge(h, plotly, k, extra) ==
    LET b == PlotlyOption(h, plotly, k)
    IN  IF b.ok /\ IsDict(h, b.v) THEN DeepUpdate(h, b.v.v, extra)
        ELSE [h |-> h, ok |-> FALSE]

\* A _deep_update into plotly["options"][k] after the steps with outcome m.
ThenPlotlyMerge(m, plotly, k, extra) ==
    IF m.ok THEN PlotlyMerge(m.h, plotly, k, extra) ELSE m

\* The two _deep_update calls that follow panel_json, pj being its outcome.
PlotlyMerges(pj, layout, configuration) ==
    Merged(ThenPlotlyMerge(ThenPlotlyMerge(pj, pj.v, "layout", layout),
                           pj.v, "configuration", configuration),
           pj.v)

Ae3ePlotly_to_json_data(h, p) ==
    PlotlyMerges(PanelJsonOf(Ae3ePlotly_overrides(h, p), p),
                 h[p].d.layout, h[p].d.configuration)

BAR_CHART_TYPE == "barchart"

\* The dict BarChart.to_json_data passes to panel_json.
BarChart_overrides(h, p) ==
    LET f == h[p].d
    IN  Alloc(h, MapV(
            [options |->
                 MapV([orientation |-> f.orientation,
                       xTickLabelRotation |-> f.x_tick_label_rotation,
                       xTickLabelSpacing |-> f.x_tick_label_spacing,
                       showValue |-> f.show_value,
                       stacking |-> f.stacking,
                       groupWidth |-> f.group_width,
                       barWidth |-> f.bar_width,
                       barRadius |-> f.bar_radius,
                       tooltip |-> MapV([mode |-> f.tooltip_mode, sort |-> f.tooltip_sort]),
                       legend |-> MapV([show |-> f.show_legend,
                                        displayMode |-> f.legend_display_mode,
                                        placement |-> f.legend_placement,
                                        calcs |-> f.legend_calcs])]),
             fieldConfig |->
                 MapV([defaults |->
                           MapV([custom |->
                                     MapV([lineWidth |-> f.line_width,
                                           fillOpacity |-> f.fill_opacity,
                                           gradientMode |-> f.gradient_mode,
                                           axisPlacement |-> f.axis_placement,
                                           axisLabel |-> f.axis_label,
                                           axisColorMode |-> f.axis_color_mode,
                                           scaleDistribution |->
                                               MapV([type |-> f.scale_distribution_type]),
                                           axisCenteredZero |-> f.axis_centered_zero,
                                           hideFrom |->
                                               MapV([tooltip |-> f.hide_from_tooltip,
                                                     viz |-> f.hide_from_viz,
                                                     legend |-> f.hide_from_legend])]),
                                 color |->
                                     MapV([mode |-> f.color_mode,
                                           fixedColor |->
                                               IF f.color_mode = StrV("fixed")
                                               THEN f.fixed_color ELSE StrV("none")]),
                                 mappings |-> f.mappings,
                                 thresholds |-> MapV([mode |-> f.thresholds_mode,
                                                      steps |-> f.threshold_steps])]),
                       overrides |-> f.overrides]),
             type |-> StrV(BAR_CHART_TYPE)]))

BarChart_to_json_data(h, p) == PanelJsonOf(BarChart_overrides(h, p), p)

Panel_overrides(h, p) ==
    CASE h[p].cls = "Heatmap" -> Heatmap_overrides(h, p)
      [] h[p].cls = "Ae3ePlotly" -> Ae3ePlotly_overrides(h, p)
      [] h[p].cls = "BarChart" -> BarChart_overrides(h, p)

Panel_to_json_data(h, p) ==
    CASE h[p].cls = "Heatmap" -> Heatmap_to_json_data(h, p)
      [] h[p].cls = "Ae3ePlotly" -> Ae3ePlotly_to_json_data(h, p)
      [] h[p].cls = "BarChart" -> BarChart_to_json_data(h, p)

(***************************************************************************)
(* Panel tree composition: Dashboard.auto_panel_ids.                       *)
(* Lists are held in the fields as ListV values of references.             *)
(***************************************************************************)
\* Python truthiness of the values ids and refIds take in this model.
Truthy(v) == v \notin {NoneV, IntV(0), BoolV(FALSE), StrV(""), LettersV(<<>>)}

\* self.copy(update=upd): a new object holding self's field values, those
\* named by upd replaced.
Copy_InPlace(h, a, upd) ==
    [h |-> [h EXCEPT ![a].d = [k \in DOMAIN @ |->
                                  IF k \in DOMAIN upd THEN upd[k] ELSE @[k]]],
     v |-> RefV(a)]

Copy(h, a, upd) ==
    [h |-> Append(h, [h[a] EXCEPT !.d = [k \in DOMAIN @ |->
                                            IF k \in DOMAIN upd THEN upd[k] ELSE @[k]]]),
     v |-> RefV(Len(h) + 1)]

\* The addresses of the objects a list value refers to, in list order.
ListRefs(l) == [i \in 1..Len(l.v) |-> l.v[i].v]

RECURSIVE Flatten(_)
Flatten(ss) == IF ss = <<>> THEN <<>> ELSE Head(ss) \o Flatten(Tail(ss))

Row_iter_panels(h, r) == ListRefs(h[r].d.panels)

RowPanel_iter_panels(h, p) == ListRefs(h[p].d.panels)

\* hasattr(panel, "_iter_panels")
HasIterPanels(h, p) == h[p].cls = "RowPanel"

Dashboard_iter_panels(h, d) ==
    LET rows == ListRefs(h[d].d.rows)
        tops == ListRefs(h[d].d.panels)
    IN  Flatten([i \in 1..Len(rows) |-> Row_iter_panels(h, rows[i])])
        \o Flatten([i \in 1..Len(tops) |->
                      <<tops[i]>> \o (IF HasIterPanels(h, tops[i])
                                      THEN RowPanel_iter_panels(h, tops[i]) ELSE <<>>)])

\* next(auto_ids) of the generator (i for i in itertools.count(1) if i not in
\* ids), n being the last number the generator has produced (0 at first).
NextAutoId_Counting(ids, n) == n + 1

NextAutoId(ids, n) ==
    CHOOSE i \in (n + 1)..(n + 1 + Cardinality(ids)) :
        i \notin ids /\ \A j \in (n + 1)..(i - 1) : j \in ids

\* set_id(panel), threading the heap and the generator: [h, g, v].
set_id_Always(h, g, ids, p) ==
    LET i == NextAutoId(ids, g)
        c == Copy(h, p, [id |-> IntV(i)])
    IN  [h |-> c.h, g |-> i, v |-> c.v]

set_id(h, g, ids, p) ==
    IF Truthy(h[p].d.id) THEN [h |-> h, g |-> g, v |-> RefV(p)]
    ELSE LET i == NextAutoId(ids, g)
             c == Copy(h, p, [id |-> IntV(i)])
         IN  [h |-> c.h, g |-> i, v |-> c.v]

\* [set_id(panel) for panel in ps], acc being the part already built.
RECURSIVE MapSetId(_, _, _, _, _)
MapSetId(h, g, ids, ps, acc) ==
    IF Len(acc) = Len(ps) THEN [h |-> h, g |-> g, v |-> acc]
    ELSE LET r == set_id(h, g, ids, ps[Len(acc) + 1])
         IN  MapSetId(r.h, r.g, ids, ps, Append(acc, r.v))

\* self.copy(update={"panels": new_panels}), m being the mapped panels.
CopyWithPanels(m, a) ==
    [h |-> Copy(m.h, a, [panels |-> ListV(m.v)]).h, g |-> m.g,
     v |-> Copy(m.h, a, [panels |-> ListV(m.v)]).v]

\* row._map_panels(set_id)
Row_map_panels(h, g, ids, r) ==
    CopyWithPanels(MapSetId(h, g, ids, Row_iter_panels(h, r), <<>>), r)

\* RowPanel._map_panels(set_id): the children are mapped, the container
\* itself is copied as it is.
RowPanel_map_panels(h, g, ids, p) ==
    CopyWithPanels(MapSetId(h, g, ids, RowPanel_iter_panels(h, p), <<>>), p)

\* Panel._map_panels(set_id)
Panel_map_panels(h, g, ids, p) == set_id(h, g, ids, p)

\* [row._map_panels(set_id) for row in rs]
RECURSIVE MapRows(_, _, _, _, _)
MapRows(h, g, ids, rs, acc) ==
    IF Len(acc) = Len(rs) THEN [h |-> h, g |-> g, v |-> acc]
    ELSE LET r == Row_map_panels(h, g, ids, rs[Len(acc) + 1])
         IN  MapRows(r.h, r.g, ids, rs, Append(acc, r.v))

\* [panel._map_panels(set_id) for panel in ps]
RECURSIVE MapTopPanels(_, _, _, _, _)
MapTopPanels(h, g, ids, ps, acc) ==
    IF Len(acc) = Len(ps) THEN [h |-> h, g |-> g, v |-> acc]
    ELSE LET p == ps[Len(acc) + 1]
             r == IF h[p].cls = "RowPanel" THEN RowPanel_map_panels(h, g, ids, p)
                  ELSE Panel_map_panels(h, g, ids, p)
         IN  MapTopPanels(r.h, r.g, ids, ps, Append(acc, r.v))

\* self.copy(update={"rows": new_rows, "panels": new_panels})
CopyWithRowsAndPanels(rs, ps, d) ==
    [h |-> Copy(ps.h, d, [rows |-> ListV(rs.v), panels |-> ListV(ps.v)]).h, g |-> ps.g,
     v |-> Copy(ps.h, d, [rows |-> ListV(rs.v), panels |-> ListV(ps.v)]).v]

\* new_panels = [...], rs being the mapped rows.
MapPanelsAfterRows(rs, ids, d) ==
    CopyWithRowsAndPanels(rs, MapTopPanels(rs.h, rs.g, ids, ListRefs(rs.h[d].d.panels), <<>>), d)

\* Dashboard._map_panels(set_id)
Dashboard_map_panels(h, g, ids, d) ==
    MapPanelsAfterRows(MapRows(h, g, ids, ListRefs(h[d].d.rows), <<>>), ids, d)

\* The ids of the panels _iter_panels yields that are truthy.
CollectIds(h, d) ==
    LET ps == Dashboard_iter_panels(h, d)
    IN  {h[ps[i]].d.id.v : i \in {j \in 1..Len(ps) : Truthy(h[ps[j]].d.id)}}

Dashboard_auto_panel_ids(h, d) ==
    Dashboard_map_panels(h, 0, CollectIds(h, d), d)

(***************************************************************************)
(* Graph.auto_ref_ids.                                                     *)
(***************************************************************************)
\* len(string.ascii_uppercase)
AlphabetSize == 26

\* The k-th element of itertools.chain(string.ascii_uppercase,
\* double_candidate_refs): A..Z, then AA, AB, .., ZZ.
NumCandidates == AlphabetSize + AlphabetSize * AlphabetSize

CandidateRefId(k) ==
    IF k <= AlphabetSize THEN LettersV(<<k>>)
    ELSE LettersV(<<((k - AlphabetSize - 1) \div AlphabetSize) + 1,
                    ((k - AlphabetSize - 1) % AlphabetSize) + 1>>)

Graph_iter_targets(h, g) == ListRefs(h[g].d.targets)

\* The position in the candidate list of next(auto_ref_ids), n being the
\* position of the candidate the generator produced last (0 at first);
\* 0 when the generator is exhausted (StopIteration).
NextAutoRefId_Unfiltered(ref_ids, n) == IF n < NumCandidates THEN n + 1 ELSE 0

NextAutoRefId(ref_ids, n) ==
    IF \E k \in (n + 1)..NumCandidates : CandidateRefId(k) \notin ref_ids
    THEN CHOOSE k \in (n + 1)..NumCandidates :
            /\ CandidateRefId(k) \notin ref_ids
            /\ \A j \in (n + 1)..(k - 1) : CandidateRefId(j) \in ref_ids
    ELSE 0

\* set_refid giving the empty refId once the candidates are used up.
set_refid_EmptyWhenExhausted(h, g, ref_ids, t) ==
    IF Truthy(h[t].d.ref_id) THEN [h |-> h, g |-> g, ok |-> TRUE, v |-> RefV(t)]
    ELSE LET k == NextAutoRefId(ref_ids, g)
             c == Copy(h, t, [ref_id |-> IF k = 0 THEN LettersV(<<>>)
                                         ELSE CandidateRefId(k)])
         IN  [h |-> c.h, g |-> IF k = 0 THEN g ELSE k, ok |-> TRUE, v |-> c.v]

\* set_refid(t): [h, g, ok, v]; ok = FALSE when next() raised.
set_refid(h, g, ref_ids, t) ==
    IF Truthy(h[t].d.ref_id) THEN [h |-> h, g |-> g, ok |-> TRUE, v |-> RefV(t)]
    ELSE LET k == NextAutoRefId(ref_ids, g)
         IN  IF k = 0 THEN [h |-> h, g |-> g, ok |-> FALSE, v |-> NoneV]
             ELSE LET c == Copy(h, t, [ref_id |-> CandidateRefId(k)])
                  IN  [h |-> c.h, g |-> k, ok |-> TRUE, v |-> c.v]

\* [set_refid(t) for t in ts[lo..hi]], in list order and stopping at the
\* first failure; the range is taken by halves, so that a long list needs no
\* deep nesting.
RECURSIVE MapSetRefId(_, _, _, _, _, _)
RefIdOne(r) == [h |-> r.h, g |-> r.g, ok |-> r.ok, v |-> IF r.ok THEN <<r.v>> ELSE <<>>]
RefIdCat(vs, r) == [h |-> r.h, g |-> r.g, ok |-> r.ok, v |-> vs \o r.v]

MapSetRefId(h, g, ref_ids, ts, lo, hi) ==
    IF lo > hi THEN [h |-> h, g |-> g, ok |-> TRUE, v |-> <<>>]
    ELSE IF lo = hi THEN RefIdOne(set_refid(h, g, ref_ids, ts[lo]))
    ELSE The({IF l.ok
              THEN RefIdCat(l.v, MapSetRefId(l.h, l.g, ref_ids, ts,
                                             ((lo + hi) \div 2) + 1, hi))
              ELSE l :
                l \in {MapSetRefId(h, g, ref_ids, ts, lo, (lo + hi) \div 2)}})

\* self.copy(update={"targets": new_targets}), m being the mapped targets.
CopyWithTargets(m, g) ==
    IF m.ok THEN [h |-> Copy(m.h, g, [targets |-> ListV(m.v)]).h, ok |-> TRUE,
                  v |-> Copy(m.h, g, [targets |-> ListV(m.v)]).v]
    ELSE [h |-> m.h, ok |-> FALSE, v |-> StrV("StopIteration")]

\* Graph._map_targets(set_refid): [h, ok, v].
Graph_map_targets(h, ref_ids, g) ==
    CopyWithTargets(MapSetRefId(h, 0, ref_ids, Graph_iter_targets(h, g),
                                1, Len(Graph_iter_targets(h, g))), g)

Graph_auto_ref_ids(h, g) ==
    LET ts == Graph_iter_targets(h, g)
        ref_ids == {h[ts[i]].d.ref_id : i \in {j \in 1..Len(ts) : Truthy(h[ts[j]].d.ref_id)}}
    IN  Graph_map_targets(h, ref_ids, g)

(***************************************************************************)
(* Threshold.to_json_data: a fresh dict of the six fields, [h, v].         *)
(***************************************************************************)
Threshold_to_json_data_NullAtOne(h, a) ==
    LET f == h[a].d
    IN  NewDict(h, <<"op", "yaxis", "color", "line", "index", "value">>,
                [op |-> f.op, yaxis |-> f.yaxis, color |-> f.color, line |-> f.line,
                 index |-> f.index,
                 value |-> IF f.index = IntV(1) THEN StrV("null") ELSE f.value])

Threshold_to_json_data(h, a) ==
    LET f == h[a].d
    IN  NewDict(h, <<"op", "yaxis", "color", "line", "index", "value">>,
                [op |-> f.op, yaxis |-> f.yaxis, color |-> f.color, line |-> f.line,
                 index |-> f.index,
                 value |-> IF f.index = IntV(0) THEN StrV("null") ELSE f.value])

(***************************************************************************)
(* Inputs of the merge scenarios.                                          *)
(***************************************************************************)
MaxVal == 2

\* to_json_data is called on an object up to this many times.
MaxSerializations == 2

Scalars == {NoneV} \cup {IntV(n) : n \in 1..MaxVal}

FunsOver(K, V) == UNION {[S -> V] : S \in SUBSET K}

\* One-level mappings, as a caller nests them under a key.
InnerMaps == {MapV(f) : f \in FunsOver({"b", "c"}, {IntV(n) : n \in 1..MaxVal})}

AGridPos == ObjV("GridPos", [h |-> IntV(1), w |-> IntV(2), x |-> IntV(0), y |-> IntV(0)])

\* A key that is not there, and the mapping of the keys of r that are.
Absent == [t |-> "absent", v |-> 0]
Present(r) == MapV([k \in {j \in DOMAIN r : r[j] # Absent} |-> r[k]])

\* Under key "a": nothing, a scalar or a one-level mapping; under key
\* "gridPos": nothing, a scalar or an entity in base, and nothing, None, a
\* scalar or a mapping in extra.
BaseTrees ==
    {Present([a |-> x, gridPos |-> g]) :
        x \in {Absent} \cup Scalars \cup InnerMaps, g \in {Absent, IntV(1), AGridPos}}
ExtraTrees ==
    {Present([a |-> x, gridPos |-> g]) :
        x \in {Absent, StrV("s"), ListV(<<IntV(1)>>)} \cup Scalars \cup InnerMaps,
        g \in {Absent, NoneV, IntV(1), MapV(EmptyMap), MapV([h |-> IntV(5)])}}

\* The two worked examples of the merge engine.
Example1 == [op |-> "_deep_update",
             base |-> MapV([a |-> MapV([b |-> IntV(1), c |-> IntV(2)])]),
             extra |-> MapV([a |-> MapV([b |-> IntV(99)])])]
Example2 == [op |-> "_deep_update",
             base |-> MapV([a |-> IntV(1)]),
             extra |-> MapV([a |-> MapV([x |-> IntV(1)])])]

DeepUpdateInputs ==
    {[op |-> "_deep_update", base |-> b, extra |-> e] :
        b \in BaseTrees, e \in ExtraTrees \cup {NoneV}}
    \cup {Example1, Example2}

InitDeepUpdate ==
    /\ inp \in DeepUpdateInputs
    /\ \E r1 \in {Alloc(<<>>, inp.base)} :
          \E r2 \in {Alloc(r1.h, inp.extra)} :
             /\ heap = r2.h
             /\ args = <<r1.v, r2.v>>
    /\ out = <<>>

\* A direct call _deep_update(base, extra): returns base_dict, or raises.
Call_deep_update ==
    /\ inp.op = "_deep_update"
    /\ out = <<>>
    /\ \E r \in {DeepUpdate(heap, args[1].v, args[2])} :
           /\ heap' = r.h
           /\ out' = <<[call |-> "_deep_update", ok |-> r.ok,
                        v |-> IF r.ok THEN args[1] ELSE StrV("AttributeError")]>>
    /\ UNCHANGED <<inp, args>>

\* Field values of a freshly constructed panel (the declared defaults).
ARepeat == ObjV("Repeat", [direction |-> NoneV, variable |-> NoneV, max_per_row |-> NoneV])
ATooltip == ObjV("Tooltip", [ms_resolution |-> BoolV(TRUE), shared |-> BoolV(TRUE),
                             sort |-> IntV(0), value_type |-> StrV("cumulative")])
AnXAxis == ObjV("XAxis", [mode |-> StrV("time"), name |-> NoneV,
                          values |-> ListV(<<>>), show |-> BoolV(TRUE)])
AYAxis == ObjV("YAxis", [decimals |-> NoneV, format |-> NoneV, label |-> NoneV,
                         log_base |-> IntV(1), max |-> NoneV, min |-> NoneV,
                         show |-> BoolV(TRUE)])
AHeatmapColor == ObjV("HeatmapColor",
                      [card_color |-> StrV("#b4ff00"), color_scale |-> StrV("sqrt"),
                       color_scheme |-> StrV("interpolateOranges"),
                       exponent |-> FloatV("0.5"), mode |-> StrV("spectrum"),
                       max |-> NoneV, min |-> NoneV])

PanelFields ==
    [data_source |-> NoneV, targets |-> ListV(<<>>), title |-> StrV(""),
     cache_timeout |-> NoneV, description |-> NoneV, editable |-> BoolV(TRUE),
     error |-> BoolV(FALSE), height |-> NoneV, grid_pos |-> NoneV,
     hide_time_override |-> BoolV(FALSE), id |-> NoneV, interval |-> NoneV,
     links |-> ListV(<<>>), max_data_points |-> IntV(100), min_span |-> NoneV,
     repeat |-> ARepeat, span |-> NoneV, thresholds |-> ListV(<<>>),
     threshold_type |-> StrV("absolute"), time_from |-> NoneV, time_shift |-> NoneV,
     transparent |-> BoolV(FALSE), transformations |-> ListV(<<>>),
     extra_json |-> NoneV]

HeatmapFields ==
    PanelFields @@
    [legend |-> MapV([show |-> BoolV(FALSE)]), tooltip |-> ATooltip,
     cards |-> MapV([cardPadding |-> NoneV, cardRound |-> NoneV]),
     color |-> AHeatmapColor, data_format |-> StrV("timeseries"),
     heatmap |-> MapV(EmptyMap), hide_zero_buckets |-> BoolV(FALSE),
     highlight_cards |-> BoolV(TRUE), options |-> ListV(<<>>), x_axis |-> AnXAxis,
     x_bucket_number |-> NoneV, x_bucket_size |-> NoneV, y_axis |-> AYAxis,
     y_bucket_bound |-> NoneV, y_bucket_number |-> NoneV, y_bucket_size |-> NoneV,
     reverse_y_buckets |-> BoolV(FALSE)]

Ae3ePlotlyFields ==
    PanelFields @@
    [configuration |-> MapV(EmptyMap), data |-> ListV(<<>>), layout |-> MapV(EmptyMap),
     script |-> StrV("console.log(data)"), click_script |-> StrV("")]

BarChartFields ==
    PanelFields @@
    [orientation |-> StrV("auto"), x_tick_label_rotation |-> IntV(0),
     x_tick_label_spacing |-> IntV(0), show_value |-> StrV("auto"),
     stacking |-> StrV("none"), group_width |-> FloatV("0.7"),
     bar_width |-> FloatV("0.97"), bar_radius |-> FloatV("0.0"),
     tooltip_mode |-> StrV("single"), tooltip_sort |-> StrV("none"),
     show_legend |-> BoolV(TRUE), legend_display_mode |-> StrV("list"),
     legend_placement |-> StrV("bottom"), legend_calcs |-> ListV(<<>>),
     line_width |-> IntV(1), fill_opacity |-> IntV(80), gradient_mode |-> StrV("none"),
     axis_placement |-> StrV("auto"), axis_label |-> StrV(""),
     axis_color_mode |-> StrV("text"), scale_distribution_type |-> StrV("linear"),
     axis_centered_zero |-> BoolV(FALSE), hide_from_tooltip |-> BoolV(FALSE),
     hide_from_viz |-> BoolV(FALSE), hide_from_legend |-> BoolV(FALSE),
     color_mode |-> StrV("palette-classic"), fixed_color |-> StrV("blue"),
     mappings |-> ListV(<<>>), thresholds_mode |-> StrV("absolute"),
     threshold_steps |-> ListV(<<MapV([value |-> NoneV, color |-> StrV("green")]),
                                 MapV([value |-> IntV(80), color |-> StrV("red")])>>), overrides |-> ListV(<<>>)]

\* Caller-supplied extraJson trees: a key is left out where the record holds
\* Absent.
Under(k, S) == {MapV(k :> x) : x \in S}

HeatmapExtras ==
    {NoneV}
    \cup {Present(r) : r \in
            [cards : {Absent, NoneV, IntV(1), MapV(EmptyMap)}
                     \cup Under("cardPadding", {IntV(n) : n \in 1..MaxVal}),
             legend : {Absent} \cup Under("show", {BoolV(TRUE)}),
             gridPos : {Absent, NoneV} \cup Under("h", {IntV(5)})]}
    \cup {Present(r) : r \in
            [title : {Absent, NoneV, StrV("t")} \cup Under("x", {IntV(1)}),
             fieldConfig : {Absent, NoneV}
                           \cup Under("defaults",
                                      {NoneV} \cup Under("unit", {StrV("s")})
                                      \cup Under("thresholds",
                                                 Under("mode", {StrV("percentage")}))),
             extra : {Absent, IntV(1)}]}

HeatmapPanels ==
    {ObjV("Heatmap", [HeatmapFields EXCEPT !.cards = c, !.grid_pos = g, !.extra_json = x]) :
        c \in {HeatmapFields.cards, MapV([cardPadding |-> IntV(1), cardRound |-> NoneV])},
        g \in {NoneV, AGridPos},
        x \in HeatmapExtras}

PlotlyLayouts == {MapV(EmptyMap)} \cup Under("a", {IntV(1)} \cup Under("b", {IntV(1)}))

Ae3ePlotlyExtras ==
    {NoneV} \cup
    {Present(r) : r \in
        [options : {Absent, NoneV}
                   \cup Under("layout", {NoneV, MapV(EmptyMap)}
                                        \cup Under("a", {IntV(n) : n \in 1..MaxVal}
                                                        \cup Under("c", {IntV(2)}))),
         title : {Absent, StrV("t")},
         fieldConfig : {Absent} \cup Under("defaults", Under("unit", {StrV("s")}))]}

Ae3ePlotlyPanels ==
    {ObjV("Ae3ePlotly",
          [Ae3ePlotlyFields EXCEPT !.layout = l, !.configuration = c, !.extra_json = x]) :
        l \in PlotlyLayouts,
        c \in {MapV(EmptyMap), MapV([a |-> IntV(1)])},
        x \in Ae3ePlotlyExtras}

BarChartExtras ==
    {NoneV} \cup
    {Present(r) : r \in
        [fieldConfig : {Absent, NoneV}
                       \cup Under("defaults", {NoneV} \cup Under("unit", {StrV("s")})
                                  \cup Under("thresholds", {NoneV} \cup Under("mode", {StrV("x")}))),
         options : {Absent, NoneV, IntV(1)} \cup Under("orientation", {StrV("horizontal")}),
         title : {Absent, StrV("t")}]}

BarChartPanels ==
    {ObjV("BarChart",
          [BarChartFields EXCEPT !.thresholds_mode = m, !.threshold_type = t,
                                 !.color_mode = c, !.extra_json = x]) :
        m \in {StrV("absolute"), StrV("percentage")},
        t \in {StrV("absolute"), StrV("percentage")},
        c \in {StrV("palette-classic"), StrV("fixed")},
        x \in BarChartExtras}

PanelInputs ==
    {[op |-> "panel", panel |-> q] : q \in HeatmapPanels \cup Ae3ePlotlyPanels \cup BarChartPanels}

\* The heap right after the panel of the scenario was constructed: the panel
\* is object 1, followed by the objects its fields hold.
PanelHeap(i) == Alloc(<<>>, i.panel).h

InitPanel ==
    /\ inp \in PanelInputs
    /\ heap = PanelHeap(inp)
    /\ args = <<RefV(1)>>
    /\ out = <<>>

\* panel.to_json_data(), once or again after it was called.
Call_to_json_data ==
    /\ inp.op = "panel"
    /\ Len(out) < MaxSerializations
    /\ out # <<>> => out[Len(out)].call = "to_json_data"
    /\ \E r \in {Panel_to_json_data(heap, args[1].v)} :
           /\ heap' = r.h
           /\ out' = Append(out, [call |-> "to_json_data", ok |-> r.ok,
                                   v |-> IF r.ok THEN r.v ELSE StrV("AttributeError")])
    /\ UNCHANGED <<inp, args>>

\* panel.panel_json(overrides), with the overrides its variant builds.
Call_panel_json ==
    /\ inp.op = "panel"
    /\ out = <<>>
    /\ \E r \in {PanelJsonOf(Panel_overrides(heap, args[1].v), args[1].v)} :
           /\ heap' = r.h
           /\ out' = <<[call |-> "panel_json", ok |-> r.ok,
                        v |-> IF r.ok THEN r.v ELSE StrV("AttributeError")]>>
    /\ UNCHANGED <<inp, args>>

(***************************************************************************)
(* Alertlist, which is not built on Panel: to_json_data returns its own    *)
(* dict.                                                                   *)
(***************************************************************************)
Alertlist_to_json_data(h, a) ==
    LET f == h[a].d
    IN  Alloc(h, MapV(
            [dashboardTags |-> f.dashboard_tags,
             description |-> f.description,
             gridPos |-> IF f.grid_pos # NoneV THEN GridPos_to_json_data(h, f.grid_pos.v)
                         ELSE NoneV,
             id |-> f.id,
             limit |-> f.limit,
             links |-> f.links,
             nameFilter |-> f.name_filter,
             onlyAlertsOnDashboard |-> f.only_alerts_on_dashboard,
             show |-> f.show,
             sortOrder |-> f.sort_order,
             span |-> f.span,
             stateFilter |-> f.state_filter,
             title |-> f.title,
             transparent |-> f.transparent,
             type |-> StrV("alertlist"),
             options |-> MapV([alertName |-> f.alert_name])]))

AlertlistInputs ==
    {[op |-> "alertlist",
      panel |-> ObjV("Alertlist",
                     [dashboard_tags |-> ListV(<<>>), description |-> StrV(""),
                      grid_pos |-> g, id |-> i, limit |-> IntV(10), links |-> ListV(<<>>),
                      name_filter |-> StrV(""), only_alerts_on_dashboard |-> BoolV(TRUE),
                      show |-> StrV("current"), sort_order |-> IntV(1), span |-> IntV(6),
                      state_filter |-> ListV(<<>>), title |-> StrV(""),
                      transparent |-> BoolV(FALSE), alert_name |-> StrV("")])] :
        g \in {NoneV, AGridPos}, i \in Scalars}

InitAlertlist ==
    /\ inp \in AlertlistInputs
    /\ heap = PanelHeap(inp)
    /\ args = <<RefV(1)>>
    /\ out = <<>>

\* alertlist.to_json_data()
Call_Alertlist_to_json_data ==
    /\ inp.op = "alertlist"
    /\ out = <<>>
    /\ \E r \in {Alertlist_to_json_data(heap, args[1].v)} :
           /\ heap' = r.h
           /\ out' = <<[call |-> "to_json_data", ok |-> TRUE, v |-> r.v]>>
    /\ UNCHANGED <<inp, args>>

InitMerge == InitDeepUpdate \/ InitPanel \/ InitAlertlist
NextMerge ==
    \/ Call_deep_update \/ Call_to_json_data \/ Call_panel_json
    \/ Call_Alertlist_to_json_data
SpecMerge == InitMerge /\ [][NextMerge]_vars

(***************************************************************************)
(* Inputs and operations of the tree scenarios: a dashboard of at most     *)
(* MaxPanels panels (in rows, at top level, or inside top-level container  *)
(* panels) with ids None or 1..MaxId, the dashboards of the worked         *)
(* example, and a graph of at most MaxTargets targets.                     *)
(***************************************************************************)
MaxPanels == 2
MaxId == 1
MaxCalls == 2
MaxTargets == 27
MaxSmallTargets == 2

PanelIds == {NoneV} \cup {IntV(n) : n \in 1..MaxId}

APanel(i) == ObjV("Panel", [id |-> i, title |-> StrV("panel")])
ARowPanel(i, l) == ObjV("RowPanel", [id |-> i, title |-> StrV("container"), panels |-> l])
ARow(l) == ObjV("Row", [title |-> StrV("row"), panels |-> l])
ADashboard(rs, ps) ==
    ObjV("Dashboard", [title |-> StrV("dashboard"), rows |-> ListV(rs), panels |-> ListV(ps)])

\* The lists of exactly n plain panels.
PanelListsOf(n) == {ListV([j \in 1..n |-> APanel(s[j])]) : s \in [1..n -> PanelIds]}
PanelListsUpTo(n) == UNION {PanelListsOf(k) : k \in 0..n}

\* No row, one row or two rows, holding n panels together.
RowListsOf(n) ==
    (IF n = 0 THEN {<<>>} ELSE {})
    \cup {<<ARow(l)>> : l \in PanelListsOf(n)}
    \cup UNION {{<<ARow(l1), ARow(l2)>> : l1 \in PanelListsOf(k), l2 \in PanelListsOf(n - k)} :
                k \in 0..n}

TopSize(t) == IF t.t = "RowPanel" THEN 1 + Len(t.v.panels.v) ELSE 1

TopItems(b) ==
    {APanel(i) : i \in PanelIds}
    \cup {ARowPanel(i, l) : i \in PanelIds, l \in PanelListsUpTo(b - 1)}

\* The top-level panel lists of at most b panels, children included.
RECURSIVE TopLists(_)
TopLists(b) ==
    IF b <= 0 THEN {<<>>}
    ELSE {<<>>} \cup UNION {{<<t>> \o rest : rest \in TopLists(b - TopSize(t))} :
                            t \in TopItems(b)}

\* The worked example: three panels without id and one with id 2, which
\* stands at any of the four places.
ExampleDashboards ==
    {ADashboard(<<>>, [j \in 1..4 |-> APanel(IF j = q THEN IntV(2) ELSE NoneV)]) : q \in 1..4}

DashboardInputs ==
    UNION {{[op |-> "dashboard", obj |-> ADashboard(rs, ps)] :
                rs \in RowListsOf(a), ps \in TopLists(MaxPanels - a)} :
           a \in 0..MaxPanels}
    \cup {[op |-> "dashboard", obj |-> d] : d \in ExampleDashboards}

ATarget(r) == ObjV("Target", [ref_id |-> r, expr |-> StrV("up")])
AGraph(ts) == ObjV("Graph", [id |-> NoneV, title |-> StrV("graph"), targets |-> ListV(ts)])

\* refIds a caller gave: "A", "B", "Z", "AA", "AB" and one that is no candidate.
ExistingRefIds == {LettersV(<<1>>), LettersV(<<2>>), LettersV(<<AlphabetSize>>),
                   LettersV(<<1, 1>>), LettersV(<<1, 2>>), StrV("query")}

\* Short target lists with any mix of refIds, target lists that use up
\* the single letters (MaxTargets - 1 or MaxTargets targets), of which at
\* most one (the q-th: the first, the middle or the last) has a refId.
GraphInputs ==
    {[op |-> "graph", obj |-> AGraph([j \in 1..Len(s) |-> ATarget(s[j])])] :
        s \in UNION {[1..k -> {LettersV(<<>>), LettersV(<<1>>), LettersV(<<2>>),
                               LettersV(<<1, 1>>)}] : k \in 0..MaxSmallTargets}}
    \cup UNION {{[op |-> "graph",
                   obj |-> AGraph([j \in 1..n |->
                                     ATarget(IF j = q THEN e ELSE LettersV(<<>>))])] :
                    q \in {0, 1, n \div 2, n}, e \in ExistingRefIds} :
                n \in (MaxTargets - 1)..MaxTargets}

\* Target lists as long as the candidate list and one longer, the first
\* target without refId, with refId "A" or with one that is no candidate.
LongGraphInputs ==
    {[op |-> "long graph",
      obj |-> AGraph([j \in 1..n |-> ATarget(IF j = 1 THEN e ELSE LettersV(<<>>))])] :
        n \in {NumCandidates, NumCandidates + 1},
        e \in {LettersV(<<>>), LettersV(<<1>>), StrV("query")}}

\* The heap right after the scenario's dashboard or graph was constructed:
\* it is object 1.
TreeHeap(i) == Alloc(<<>>, i.obj).h

InitTree ==
    /\ inp \in DashboardInputs \cup GraphInputs \cup LongGraphInputs
    /\ heap = TreeHeap(inp)
    /\ args = <<RefV(1)>>
    /\ out = <<>>

\* The object the next call is made on: the constructed one, then the one
\* the previous call returned.
Receiver == IF out = <<>> THEN args[1] ELSE out[Len(out)].v

\* dashboard = dashboard.auto_panel_ids()
Call_auto_panel_ids ==
    /\ inp.op = "dashboard"
    /\ Len(out) < MaxCalls
    /\ \E r \in {Dashboard_auto_panel_ids(heap, Receiver.v)} :
           /\ heap' = r.h
           /\ out' = Append(out, [call |-> "auto_panel_ids", ok |-> TRUE, v |-> r.v])
    /\ UNCHANGED <<inp, args>>

\* graph = graph.auto_ref_ids()
Call_auto_ref_ids ==
    /\ inp.op \in {"graph", "long graph"}
    /\ Len(out) < MaxCalls
    /\ out # <<>> => out[Len(out)].ok
    /\ \E r \in {Graph_auto_ref_ids(heap, Receiver.v)} :
           /\ heap' = r.h
           /\ out' = Append(out, [call |-> "auto_ref_ids", ok |-> r.ok, v |-> r.v])
    /\ UNCHANGED <<inp, args>>

Init == InitTree
Next == Call_auto_panel_ids \/ Call_auto_ref_ids
Spec == Init /\ [][Next]_vars

(***************************************************************************)
(* Threshold scenarios: a Threshold is constructed and serialized.         *)
(***************************************************************************)
MaxIndex == 2
MaxThresholdValue == 2

\* Threshold(color=c, index=i, value=x, line=l, op=o, yaxis=y); the float x
\* is spelled by the integer it equals.
AThreshold(c, i, x, l, o, y) ==
    ObjV("Threshold", [color |-> StrV(c), index |-> IntV(i), value |-> FloatV(x),
                       line |-> BoolV(l), op |-> StrV(o), yaxis |-> StrV(y)])

ThresholdInputs ==
    {[op |-> "threshold", obj |-> AThreshold(c, i, x, l, o, y)] :
        c \in {"green", "red"}, i \in (-1)..MaxIndex, x \in (-1)..MaxThresholdValue,
        l \in BOOLEAN, o \in {"gt", "lt"}, y \in {"left", "right"}}

InitThreshold ==
    /\ inp \in ThresholdInputs
    /\ heap = Alloc(<<>>, inp.obj).h
    /\ args = <<RefV(1)>>
    /\ out = <<>>

\* threshold.to_json_data()
Call_Threshold_to_json_data ==
    /\ inp.op = "threshold"
    /\ out = <<>>
    /\ \E r \in {Threshold_to_json_data(heap, args[1].v)} :
           /\ heap' = r.h
           /\ out' = <<[call |-> "to_json_data", ok |-> TRUE, v |-> r.v]>>
    /\ UNCHANGED <<inp, args>>

NextThreshold == Call_Threshold_to_json_data
SpecThreshold == InitThreshold /\ [][NextThreshold]_vars

(***************************************************************************)
(* The merge engine as a function of plain trees, used to state claims.    *)
(***************************************************************************)
Returned == out # <<>> /\ out[1].ok

\* The plain-JSON form of a value of a tree: a GridPos (the one entity that
\* sits inside the trees of this model, its keys being its field names) is
\* read through its to_json_data, anything else is itself.
JsonOf(val) == IF val.t = "GridPos" THEN MapV(val.v) ELSE val

RECURSIVE MergeTree(_, _)
MergeTree(b, e) ==
    IF e.t # "map" THEN b
    ELSE MapV([k \in DOMAIN b.v \cup DOMAIN e.v |->
                 IF k \notin DOMAIN e.v THEN b.v[k]
                 ELSE IF k \in DOMAIN b.v /\ JsonOf(b.v[k]).t = "map"
                      THEN MergeTree(JsonOf(b.v[k]), e.v[k])
                      ELSE e.v[k]])

DeepUpdateExamples ==
    /\ inp = Example1 =>
         Reify(heap, args[1]) = MapV([a |-> MapV([b |-> IntV(99), c |-> IntV(2)])])
    /\ inp = Example2 =>
         Reify(heap, args[1]) = MapV([a |-> MapV([x |-> IntV(1)])])

RECURSIVE LeavesAt(_, _)
LeavesAt(val, path) ==
    IF val.t = "map"
    THEN UNION {LeavesAt(val.v[k], Append(path, k)) : k \in DOMAIN val.v}
    ELSE {<<path, val>>}

\* The <<path, value>> pairs at which a tree holds a value that is not a mapping.
NonMapLeaves(val) == LeavesAt(val, <<>>)

RECURSIVE At(_, _)
At(val, path) ==
    IF path = <<>> THEN val
    ELSE IF val.t = "map" /\ Head(path) \in DOMAIN val.v
         THEN At(val.v[Head(path)], Tail(path))
         ELSE Absent

IsPrefix(p, q) == Len(p) <= Len(q) /\ SubSeq(q, 1, Len(p)) = p

\* No path of tree x runs through, or ends at or below, path p.
Untouched(p, x) ==
    x.t # "map" \/ \A l \in NonMapLeaves(x) : ~IsPrefix(p, l[1]) /\ ~IsPrefix(l[1], p)

\* What the scenario's panel was built with, and what its variant and the
\* envelope hold before any merge.
ExtraJson == inp.panel.v.extra_json

OverlayTree ==
    LET ov == Panel_overrides(PanelHeap(inp), 1) IN Reify(ov.h, ov.v)

EnvelopeTree ==
    LET h0 == [PanelHeap(inp) EXCEPT ![1].d.extra_json = NoneV]
        pj == PanelJson(h0, 1, NoneV)
    IN  Reify(pj.h, pj.v)

PanelReturned == inp.op = "panel" /\ out # <<>> /\ out[1].ok

SerializedTree ==
    LET P == MergeTree(MergeTree(EnvelopeTree, OverlayTree), ExtraJson)
    IN  IF inp.panel.t # "Ae3ePlotly" THEN P
        ELSE MapV([P.v EXCEPT !.options =
                     MapV([@.v EXCEPT
                             !.layout = MergeTree(@, inp.panel.v.layout),
                             !.configuration = MergeTree(@, inp.panel.v.configuration)])])

C9_SerializationPure ==
    (inp.op = "panel" /\ out # <<>> /\ out[1].call = "to_json_data") =>
        SubSeq(heap, 1, Len(PanelHeap(inp))) = PanelHeap(inp)

(***************************************************************************)
(* Claims about auto-id and auto-refId assignment.                         *)
(***************************************************************************)
\* The panels of a plain dashboard in traversal order: the panels of the
\* rows, then every top-level panel followed by the panels nested in it.
PlainPanels(d) ==
    LET rows == d.v.rows.v
        tops == d.v.panels.v
    IN  Flatten([i \in 1..Len(rows) |-> rows[i].v.panels.v])
        \o Flatten([i \in 1..Len(tops) |->
                      <<tops[i]>> \o (IF tops[i].t = "RowPanel" THEN tops[i].v.panels.v
                                      ELSE <<>>)])

IdsOf(d) == [i \in 1..Len(PlainPanels(d)) |-> PlainPanels(d)[i].v.id]

\* The ids before the first call and after the n-th.
IdsBefore == IdsOf(inp.obj)
IdsAfter(n) == IdsOf(Reify(heap, out[n].v))

UsedIds == {IdsBefore[i].v : i \in {j \in 1..Len(IdsBefore) : Truthy(IdsBefore[j])}}

\* The k-th smallest positive integer outside the set used.
NthFree(used, k) ==
    CHOOSE n \in 1..(k + Cardinality(used)) :
        n \notin used /\ Cardinality({m \in 1..n : m \notin used}) = k

\* How many panels up to the i-th of the traversal lacked an id.
UnsetRank(i) == Cardinality({j \in 1..i : ~Truthy(IdsBefore[j])})

DashboardCalled(n) == inp.op = "dashboard" /\ Len(out) >= n

\* C3: auto_panel_ids keeps the ids that were set and gives the panels
\* lacking one, in traversal order, the smallest positive integers that no
\* panel of the tree had; in the example the unset panels get 1, 3, 4.
C3_SmallestFreeIdsInOrder ==
    DashboardCalled(1) =>
        /\ Len(IdsAfter(1)) = Len(IdsBefore)
        /\ \A i \in 1..Len(IdsBefore) :
              IdsAfter(1)[i] = IF Truthy(IdsBefore[i]) THEN IdsBefore[i]
                               ELSE IntV(NthFree(UsedIds, UnsetRank(i)))

\* C3 on the dashboards in which no container panel lacks an id.
C3_ExceptUnsetContainers ==
    (DashboardCalled(1)
        /\ \A i \in 1..Len(IdsBefore) :
              PlainPanels(inp.obj)[i].t = "RowPanel" => Truthy(IdsBefore[i])) =>
        /\ Len(IdsAfter(1)) = Len(IdsBefore)
        /\ \A i \in 1..Len(IdsBefore) :
              IdsAfter(1)[i] = IF Truthy(IdsBefore[i]) THEN IdsBefore[i]
                               ELSE IntV(NthFree(UsedIds, UnsetRank(i)))

\* The worked example of C3: 1, 3, 4 around the untouched 2.
C3_Example ==
    (DashboardCalled(1) /\ inp.obj \in ExampleDashboards) =>
        LET q == CHOOSE j \in 1..4 : IdsBefore[j] = IntV(2)
        IN  IdsAfter(1) = [j \in 1..4 |->
                             IF j = q THEN IntV(2)
                             ELSE IntV(NthFree({2}, IF j < q THEN j ELSE j - 1))]

\* C4: after auto_panel_ids every panel of the tree, container panels
\* included, has a non-empty id.
C4_EveryPanelHasId ==
    DashboardCalled(1) => \A i \in 1..Len(IdsAfter(1)) : Truthy(IdsAfter(1)[i])

C6_AutoIdsIdempotent ==
    DashboardCalled(2) =>
        /\ IdsAfter(2) = IdsAfter(1)
        /\ Reify(heap, out[2].v) = Reify(heap, out[1].v)

\* Two passes over a tree in which the first pass had ids to assign.
C6_Witness ==
    /\ DashboardCalled(2)
    /\ \E i \in 1..Len(IdsBefore) : ~Truthy(IdsBefore[i]) /\ Truthy(IdsAfter(1)[i])
    /\ UsedIds # {}

\* The refIds of the targets of a plain graph, in list order.
RefIdsOf(g) == [i \in 1..Len(g.v.targets.v) |-> g.v.targets.v[i].v.ref_id]

RefIdsBefore == RefIdsOf(inp.obj)
RefIdsAfter == RefIdsOf(Reify(heap, out[1].v))

ExistingRefs == {RefIdsBefore[i] : i \in {j \in 1..Len(RefIdsBefore) : Truthy(RefIdsBefore[j])}}

\* The refIds given to the targets before the i-th.
HandedOut(i) == {RefIdsAfter[j] : j \in {m \in 1..(i - 1) : ~Truthy(RefIdsBefore[m])}}

\* The first id of A, B, .., Z, AA, AB, .., ZZ outside the set taken.
SingleLetters == {LettersV(<<c>>) : c \in 1..AlphabetSize}

FirstUnused(taken) ==
    IF SingleLetters \ taken # {}
    THEN LettersV(<<CHOOSE c \in 1..AlphabetSize :
                       /\ LettersV(<<c>>) \notin taken
                       /\ \A e \in 1..(c - 1) : LettersV(<<e>>) \in taken>>)
    ELSE LET pairs == {p \in (1..AlphabetSize) \X (1..AlphabetSize) :
                          LettersV(<<p[1], p[2]>>) \notin taken}
             first == CHOOSE p \in pairs :
                         \A r \in pairs : p[1] < r[1] \/ (p[1] = r[1] /\ p[2] <= r[2])
         IN  LettersV(<<first[1], first[2]>>)

GraphReturned == inp.op = "graph" /\ out # <<>> /\ out[1].ok

\* C7: auto_ref_ids keeps the refIds that were set and gives each target
\* lacking one, in list order, the first id of A..Z, AA..ZZ that is neither
\* an existing refId nor handed out before; no id given equals an existing
\* one, no double letter is given while a single letter is unused, and the
\* 27th of 27 targets without refIds gets AA.
C7_FirstUnusedRefIds ==
    GraphReturned =>
        /\ Len(RefIdsAfter) = Len(RefIdsBefore)
        /\ \A i \in 1..Len(RefIdsBefore) :
              IF Truthy(RefIdsBefore[i]) THEN RefIdsAfter[i] = RefIdsBefore[i]
              ELSE /\ RefIdsAfter[i] = FirstUnused(ExistingRefs \cup HandedOut(i))
                   /\ RefIdsAfter[i] \notin ExistingRefs
                   /\ Len(RefIdsAfter[i].v) = 2 =>
                         SingleLetters \subseteq ExistingRefs \cup HandedOut(i)
        /\ (Len(RefIdsBefore) = 27 /\ ExistingRefs = {}) =>
              RefIdsAfter[27] = LettersV(<<1, 1>>)

\* 27 targets without refIds: the 27th got AA.
C7_Witness ==
    /\ GraphReturned
    /\ Len(RefIdsBefore) = 27 /\ ExistingRefs = {}
    /\ RefIdsAfter[27] = LettersV(<<1, 1>>)

\* C8: auto_panel_ids and auto_ref_ids return a new object, and every
\* object that existed before the call (the dashboard or graph and the
\* rows, panels and targets it holds) has the field values it had.
C8_CopyOnWrite ==
    (inp.op \in {"dashboard", "graph"} /\ out # <<>>) =>
        /\ SubSeq(heap, 1, Len(TreeHeap(inp))) = TreeHeap(inp)
        /\ \A n \in 1..Len(out) :
              out[n].ok => /\ out[n].v.v > Len(TreeHeap(inp))
                           /\ \A m \in 1..(n - 1) : out[m].v # out[n].v

\* A call that had an id or a refId to assign.
C8_Witness ==
    /\ inp.op \in {"dashboard", "graph"} /\ out # <<>> /\ out[1].ok
    /\ Reify(heap, out[1].v) # inp.obj

(***************************************************************************)
(* Claims about Threshold.                                                 *)
(***************************************************************************)
ThresholdReturned == inp.op = "threshold" /\ out # <<>>

\* C10: Threshold.to_json_data emits "null" as value when index == 0,
\* whatever value the Threshold was constructed with, and the constructed
\* value when index != 0.
C10_NullValueAtIndexZero ==
    ThresholdReturned =>
        Reify(heap, out[1].v).v.value =
            IF inp.obj.v.index.v = 0 THEN StrV("null") ELSE inp.obj.v.value

\* A Threshold of index 0 constructed with a non-zero value was serialized.
C10_Witness ==
    /\ ThresholdReturned
    /\ inp.obj.v.index.v = 0 /\ inp.obj.v.value.v # 0
    /\ Reify(heap, out[1].v).v.value = StrV("null")

(***************************************************************************)
(* String validators: Pixels and Percent (core.py), is_interval and        *)
(* is_color_code (validators.py).  A string is spelled as the sequence of  *)
(* its characters, each a one-character string.                            *)
(***************************************************************************)
DigitChars == <<"0", "1", "2", "3", "4", "5", "6", "7", "8", "9">>
Digits == {DigitChars[i] : i \in 1..Len(DigitChars)}

\* str(n) of a non-negative int.
RECURSIVE Decimal(_)
Decimal(n) ==
    IF n < Len(DigitChars) THEN <<DigitChars[n + 1]>>
    ELSE Append(Decimal(n \div Len(DigitChars)), DigitChars[(n % Len(DigitChars)) + 1])

\* f"{value}" of a value that passes isinstance(value, int): an int or a bool.
Format(value) ==
    IF value.t = "bool"
    THEN (IF value.v THEN <<"T", "r", "u", "e">> ELSE <<"F", "a", "l", "s", "e">>)
    ELSE IF value.v < 0 THEN <<"-">> \o Decimal(0 - value.v)
    ELSE Decimal(value.v)

\* str.isdigit() over the characters of this model.
isdigit(s) == Len(s) > 0 /\ \A i \in 1..Len(s) : s[i] \in Digits

Raised == [ok |-> FALSE, v |-> NoneV]
Accepted(s) == [ok |-> TRUE, v |-> StrV(s)]

\* The body shared by validate_pixels and validate_percentage: an int is
\* formatted and suffixed without any check; anything else goes through the
\* str handler (which rejects what is no str) and is then checked.
ValidateSuffixed(value, suffix) ==
    IF value.t \in {"int", "bool"} THEN Accepted(Format(value) \o suffix)
    ELSE IF value.t # "str" THEN Raised
    ELSE IF Len(value.v) < Len(suffix)
            \/ SubSeq(value.v, Len(value.v) - Len(suffix) + 1, Len(value.v)) # suffix
    THEN Raised
    ELSE IF ~isdigit(SubSeq(value.v, 1, Len(value.v) - Len(suffix)))
            \/ \E i \in 1..(Len(value.v) - Len(suffix)) : value.v[i] = " "
    THEN Raised
    ELSE Accepted(value.v)

\* validate_pixels with the suffix of validate_percentage.
validate_pixels_PercentSuffix(value) == ValidateSuffixed(value, <<"%">>)

validate_pixels(value) == ValidateSuffixed(value, <<"p", "x">>)
validate_percentage(value) == ValidateSuffixed(value, <<"%">>)

\* re.match(r"^[+-]?\d*[smhdMY]$", value): "$" matches at the end of the
\* string and also just before a newline that ends the string.
IntervalUnits == {"s", "m", "h", "d", "M", "Y"}

MatchesUnsigned(b) ==
    /\ Len(b) >= 1
    /\ b[Len(b)] \in IntervalUnits
    /\ \A i \in 1..(Len(b) - 1) : b[i] \in Digits

MatchesToEnd(t) ==
    \/ MatchesUnsigned(t)
    \/ Len(t) >= 1 /\ t[1] \in {"+", "-"} /\ MatchesUnsigned(Tail(t))

is_interval(value) ==
    IF \/ MatchesToEnd(value.v)
       \/ /\ Len(value.v) >= 1
          /\ value.v[Len(value.v)] = "\n"
          /\ MatchesToEnd(SubSeq(value.v, 1, Len(value.v) - 1))
    THEN Accepted(value.v)
    ELSE Raised

\* int(text, 16) succeeds: surrounding whitespace is skipped, then come an
\* optional sign, an optional "0x" prefix (which one underscore may follow)
\* and hexadecimal digits with single underscores between them.
Whitespace == {" ", "\t", "\n", "\f", "\r"}
HexDigits == Digits \cup {"a", "b", "c", "d", "e", "f", "A", "B", "C", "D", "E", "F"}

RECURSIVE Strip(_)
Strip(s) ==
    IF s # <<>> /\ s[1] \in Whitespace THEN Strip(Tail(s))
    ELSE IF s # <<>> /\ s[Len(s)] \in Whitespace THEN Strip(SubSeq(s, 1, Len(s) - 1))
    ELSE s

UnderscoredDigits(s) ==
    /\ Len(s) >= 1
    /\ s[1] \in HexDigits
    /\ s[Len(s)] \in HexDigits
    /\ \A i \in 1..Len(s) : s[i] \in HexDigits \cup {"_"}
    /\ \A i \in 1..(Len(s) - 1) : ~(s[i] = "_" /\ s[i + 1] = "_")

AfterSign(s) ==
    IF Len(s) >= 2 /\ s[1] = "0" /\ s[2] \in {"x", "X"}
    THEN UnderscoredDigits(SubSeq(s, IF Len(s) >= 3 /\ s[3] = "_" THEN 4 ELSE 3, Len(s)))
    ELSE UnderscoredDigits(s)

AfterSpace(s) ==
    IF Len(s) >= 1 /\ s[1] \in {"+", "-"} THEN AfterSign(Tail(s)) ELSE AfterSign(s)

ParsesBase16(s) == AfterSpace(Strip(s))

ColorCodeLen == 7

is_color_code(value) ==
    IF Len(value.v) < 1 \/ value.v[1] # "#" THEN Raised
    ELSE IF Len(value.v) # ColorCodeLen THEN Raised
    ELSE IF ~ParsesBase16(Tail(value.v)) THEN Raised
    ELSE Accepted(value.v)

(***************************************************************************)
(* Validator scenarios: a value is handed to Pixels / Percent (and the     *)
(* stored string handed to the constructor again), or a string is handed   *)
(* to is_interval / is_color_code.                                         *)
(***************************************************************************)
MaxInt == 11
MaxStrLen == 4
MaxColorVar == 2

Strings(A, n) == UNION {[1..k -> A] : k \in 0..n}

\* Ints of either sign, a bool, values that are neither int nor str, and
\* short strings of digits, blanks, signs and suffix characters.
RootInputs ==
    {[op |-> c, value |-> x] :
        c \in {"Pixels", "Percent"},
        x \in {IntV(n) : n \in (0 - MaxInt)..MaxInt}
              \cup {BoolV(TRUE), NoneV, FloatV(1)}
              \cup {StrV(t) : t \in Strings({"1", "0", " ", "-", "p", "x", "%"}, MaxStrLen)}}

IntervalInputs ==
    {[op |-> "is_interval", value |-> StrV(t)] :
        t \in Strings({"+", "-", "2", "4", "h", "r", "M", "\n"}, MaxStrLen)}

\* Strings of ColorCodeLen - 1 to ColorCodeLen + 1 characters: a first
\* character, MaxColorVar free characters and hexadecimal digits after them;
\* and the colour codes of the documentation.
ColorInputs ==
    {[op |-> "is_color_code", value |-> StrV(<<c>> \o w \o SubSeq(<<"7", "8", "7", "2", "D">>, 1, n))] :
        c \in {"#", "3"},
        w \in [1..MaxColorVar -> {"3", "7", "D", "Z", "+", " ", "_", "x", "0"}],
        n \in (ColorCodeLen - 2 - MaxColorVar)..(ColorCodeLen - MaxColorVar)}
    \cup {[op |-> "is_color_code", value |-> StrV(t)] :
            t \in {<<"#", "3", "7", "8", "7", "2", "D">>, <<"3", "7", "8", "7", "2", "D">>,
                   <<"#", "3", "7", "8", "7", "2">>, <<"#", "3", "7", "8", "7", "2", "Z">>}}

InitValidators ==
    /\ inp \in RootInputs \cup IntervalInputs \cup ColorInputs
    /\ heap = <<>>
    /\ args = <<inp.value>>
    /\ out = <<>>

\* Pixels(value), then Pixels(p.root) of the instance p it made.
Call_Pixels ==
    /\ inp.op = "Pixels"
    /\ Len(out) < MaxCalls
    /\ out # <<>> => out[Len(out)].ok
    /\ \E r \in {validate_pixels(Receiver)} :
           out' = Append(out, [call |-> "Pixels", ok |-> r.ok, v |-> r.v])
    /\ UNCHANGED <<heap, inp, args>>

\* Percent(value), then Percent(p.root) of the instance p it made.
Call_Percent ==
    /\ inp.op = "Percent"
    /\ Len(out) < MaxCalls
    /\ out # <<>> => out[Len(out)].ok
    /\ \E r \in {validate_percentage(Receiver)} :
           out' = Append(out, [call |-> "Percent", ok |-> r.ok, v |-> r.v])
    /\ UNCHANGED <<heap, inp, args>>

\* is_interval(value)
Call_is_interval ==
    /\ inp.op = "is_interval"
    /\ out = <<>>
    /\ \E r \in {is_interval(args[1])} :
           out' = <<[call |-> "is_interval", ok |-> r.ok, v |-> r.v]>>
    /\ UNCHANGED <<heap, inp, args>>

\* is_color_code(value)
Call_is_color_code ==
    /\ inp.op = "is_color_code"
    /\ out = <<>>
    /\ \E r \in {is_color_code(args[1])} :
           out' = <<[call |-> "is_color_code", ok |-> r.ok, v |-> r.v]>>
    /\ UNCHANGED <<heap, inp, args>>

NextValidators == Call_Pixels \/ Call_Percent \/ Call_is_interval \/ Call_is_color_code
SpecValidators == InitValidators /\ [][NextValidators]_vars

(***************************************************************************)
(* Claims about the validators.                                            *)
(***************************************************************************)
\* The number a string of decimal digits spells.
RECURSIVE NumberOf(_)
NumberOf(s) ==
    IF s = <<>> THEN 0
    ELSE 10 * NumberOf(SubSeq(s, 1, Len(s) - 1))
         + (CHOOSE d \in 0..9 : DigitChars[d + 1] = s[Len(s)])

SuffixOf(op) == IF op = "Pixels" THEN <<"p", "x">> ELSE <<"%">>
IsRootCall == inp.op \in {"Pixels", "Percent"}
BodyOf(s) == SubSeq(s, 1, Len(s) - Len(SuffixOf(inp.op)))
EndOf(s) == SubSeq(s, Len(s) - Len(SuffixOf(inp.op)) + 1, Len(s))

\* One or more decimal digits followed by the suffix of the class.
WellFormedRoot(s) ==
    /\ Len(s) > Len(SuffixOf(inp.op))
    /\ EndOf(s) = SuffixOf(inp.op)
    /\ \A i \in 1..Len(BodyOf(s)) : BodyOf(s)[i] \in Digits

C12_StoredRootWellFormed ==
    (IsRootCall /\ out # <<>> /\ out[1].ok) => WellFormedRoot(out[1].v.v)

\* C13: is_interval accepts exactly the strings made of an optional sign,
\* zero or more digits and one final unit letter of s, m, h, d, M, Y.
C13_IntervalGrammar ==
    (inp.op = "is_interval" /\ out # <<>>) =>
        (out[1].ok <=>
            \E k \in {0, 1} :
                /\ Len(inp.value.v) > k
                /\ k = 1 => inp.value.v[1] \in {"+", "-"}
                /\ inp.value.v[Len(inp.value.v)] \in {"s", "m", "h", "d", "M", "Y"}
                /\ \A i \in (k + 1)..(Len(inp.value.v) - 1) : inp.value.v[i] \in Digits)

\* C14: is_color_code accepts exactly the strings that are "#" followed by
\* exactly six hexadecimal digits.
C14_ColorGrammar ==
    (inp.op = "is_color_code" /\ out # <<>>) =>
        (out[1].ok <=>
            /\ Len(inp.value.v) = 7
            /\ inp.value.v[1] = "#"
            /\ \A i \in 2..7 : inp.value.v[i] \in HexDigits)

(***************************************************************************)
(* Alert rules: AlertCondition, AlertRulev8 and AlertRulev9.  A trigger    *)
(* pair (target, condition) is a tuple of two references.                  *)
(***************************************************************************)
TupleV(s) == [t |-> "tuple", v |-> s]

Target_to_json_data(h, a) ==
    EntityJson(h, a, <<(<<"expr", "expr">>), (<<"query", "expr">>), (<<"target", "target">>),
                       (<<"format", "format">>), (<<"hide", "hide">>),
                       (<<"interval", "interval">>),
                       (<<"intervalFactor", "interval_factor">>),
                       (<<"legendFormat", "legend_format">>),
                       (<<"alias", "legend_format">>), (<<"metric", "metric">>),
                       (<<"refId", "ref_id">>), (<<"step", "step">>),
                       (<<"instant", "instant">>), (<<"datasource", "datasource">>)>>)

Evaluator_to_json_data(h, a) ==
    EntityJson(h, a, <<(<<"type", "type">>), (<<"params", "params">>)>>)

\* __get_query_params giving the three old-alert params whenever a target is
\* set, the time range read as TimeRange("", "") when there is none.
get_query_params_TargetOnly(h, c) ==
    IF h[c].d.target = NoneV THEN <<>>
    ELSE IF h[c].d.use_new_alerts.v THEN <<h[h[c].d.target.v].d.ref_id>>
    ELSE IF h[c].d.time_range = NoneV THEN <<h[h[c].d.target.v].d.ref_id, StrV(""), StrV("")>>
    ELSE <<h[h[c].d.target.v].d.ref_id,
           h[h[c].d.time_range.v].d.from_time, h[h[c].d.time_range.v].d.to_time>>

\* AlertCondition.__get_query_params; an instance is always truthy.
get_query_params(h, c) ==
    IF h[c].d.use_new_alerts.v
    THEN (IF h[c].d.target # NoneV THEN <<h[h[c].d.target.v].d.ref_id>> ELSE <<>>)
    ELSE IF h[c].d.target # NoneV /\ h[c].d.time_range # NoneV
    THEN <<h[h[c].d.target.v].d.ref_id,
           h[h[c].d.time_range.v].d.from_time, h[h[c].d.time_range.v].d.to_time>>
    ELSE <<>>

\* The "query" entry of a condition, after the pop of "model".
ConditionQuery(h, c) ==
    IF h[c].d.use_new_alerts.v THEN MapV([params |-> ListV(get_query_params(h, c))])
    ELSE MapV([model |-> IF h[c].d.target # NoneV
                         THEN Target_to_json_data(h, h[c].d.target.v)
                         ELSE MapV(EmptyMap),
               params |-> ListV(get_query_params(h, c))])

\* AlertCondition.to_json_data with "model" never popped.
AlertCondition_to_json_data_KeepModel(h, c) ==
    MapV([evaluator |-> Evaluator_to_json_data(h, h[c].d.evaluator.v),
          operator |-> MapV([type |-> h[c].d.operator]),
          query |-> MapV([model |-> IF h[c].d.target # NoneV
                                    THEN Target_to_json_data(h, h[c].d.target.v)
                                    ELSE MapV(EmptyMap),
                          params |-> ListV(get_query_params(h, c))]),
          reducer |-> MapV([params |-> ListV(<<>>), type |-> h[c].d.reducer_type]),
          type |-> h[c].d.type_])

AlertCondition_to_json_data(h, c) ==
    MapV([evaluator |-> Evaluator_to_json_data(h, h[c].d.evaluator.v),
          operator |-> MapV([type |-> h[c].d.operator]),
          query |-> ConditionQuery(h, c),
          reducer |-> MapV([params |-> ListV(<<>>), type |-> h[c].d.reducer_type]),
          type |-> h[c].d.type_])

\* The data entry both rule versions build for a Target trigger.
TargetEntry(h, r, t) ==
    MapV([refId |-> h[t].d.ref_id,
          relativeTimeRange |-> MapV([from |-> h[r].d.time_range_from,
                                      to |-> h[r].d.time_range_to]),
          datasourceUid |-> h[t].d.datasource,
          model |-> Target_to_json_data(h, t)])

\* condition.use_new_alerts = True with the target left as it is.
BindCondition_FlagOnly(h, c, t) == [h EXCEPT ![c].d.use_new_alerts = BoolV(TRUE)]

\* The flag flipped instead of set.
BindCondition_Toggling(h, c, t) ==
    [h EXCEPT ![c].d.use_new_alerts = BoolV(~@.v), ![c].d.target = RefV(t)]

\* condition.use_new_alerts = True; condition.target = trigger
BindCondition(h, c, t) ==
    [h EXCEPT ![c].d.use_new_alerts = BoolV(TRUE), ![c].d.target = RefV(t)]

\* The loop of AlertRulev8.to_json_data from trigger i on.  Unpacking an
\* element that is no tuple of two raises, with the conditions bound so far
\* left bound.
RECURSIVE V8Triggers(_, _, _, _, _)
V8Pair(h, r, i, data, conditions, t, c) ==
    V8Triggers(BindCondition(h, c, t), r, i + 1, Append(data, TargetEntry(h, r, t)),
               Append(conditions, AlertCondition_to_json_data(BindCondition(h, c, t), c)))

V8Triggers(h, r, i, data, conditions) ==
    IF i > Len(h[r].d.triggers.v)
    THEN [h |-> h, ok |-> TRUE, data |-> data, conditions |-> conditions]
    ELSE IF h[r].d.triggers.v[i].t # "tuple" \/ Len(h[r].d.triggers.v[i].v) # 2
    THEN [h |-> h, ok |-> FALSE, data |-> data, conditions |-> conditions]
    ELSE V8Pair(h, r, i, data, conditions,
                h[r].d.triggers.v[i].v[1].v, h[r].d.triggers.v[i].v[2].v)

ConditionEntry(conditions) ==
    MapV([refId |-> StrV("CONDITION"),
          datasourceUid |-> StrV("-100"),
          model |-> MapV([conditions |-> ListV(conditions),
                          refId |-> StrV("CONDITION"),
                          type |-> StrV("classic_conditions")])])

V8Json(m, r) ==
    IF ~m.ok THEN [h |-> m.h, ok |-> FALSE, v |-> NoneV]
    ELSE [ok |-> TRUE] @@
         Alloc(m.h,
               MapV([for |-> m.h[r].d.evaluate_for,
                     labels |-> m.h[r].d.labels,
                     annotations |-> m.h[r].d.annotations,
                     grafana_alert |->
                         MapV([title |-> m.h[r].d.title,
                               condition |-> StrV("CONDITION"),
                               data |-> ListV(Append(m.data, ConditionEntry(m.conditions))),
                               intervalSeconds |-> m.h[r].d.evaluate_interval,
                               exec_err_state |-> m.h[r].d.error_alert_state,
                               no_data_state |-> m.h[r].d.no_data_alert_state,
                               uid |-> m.h[r].d.uid,
                               rule_group |-> m.h[r].d.rule_group])]))

AlertRulev8_to_json_data(h, r) == V8Json(V8Triggers(h, r, 1, <<>>, <<>>), r)

\* AlertRulev8(title="rule", triggers=triggers).  pydantic checks that
\* triggers is a list and takes its elements as they are; the validator=
\* keyword of Field names no validator of pydantic, so is_valid_triggers is
\* never called.
AlertRulev8_new(h, triggers) ==
    IF triggers.t # "list" THEN [h |-> h, ok |-> FALSE, v |-> NoneV]
    ELSE [ok |-> TRUE] @@
         Alloc(h, ObjV("AlertRulev8",
                       [title |-> StrV("rule"), triggers |-> triggers,
                        annotations |-> MapV(EmptyMap), labels |-> MapV(EmptyMap),
                        evaluate_interval |-> StrV("1m"), evaluate_for |-> StrV("5m"),
                        no_data_alert_state |-> StrV("Alerting"),
                        error_alert_state |-> StrV("Alerting"),
                        time_range_from |-> IntV(300), time_range_to |-> IntV(0),
                        uid |-> NoneV, dashboard_uid |-> StrV(""),
                        panel_id |-> IntV(0), rule_group |-> StrV("")]))

\* AlertRulev9(title="rule", triggers=triggers, condition=condition); here
\* too is_valid_triggersv9 is never called.
AlertRulev9_new(h, triggers, condition) ==
    IF triggers.t # "list" THEN [h |-> h, ok |-> FALSE, v |-> NoneV]
    ELSE [ok |-> TRUE] @@
         Alloc(h, ObjV("AlertRulev9",
                       [title |-> StrV("rule"), triggers |-> triggers,
                        annotations |-> MapV(EmptyMap), labels |-> MapV(EmptyMap),
                        evaluate_for |-> StrV("5m"),
                        no_data_alert_state |-> StrV("Alerting"),
                        error_alert_state |-> StrV("Alerting"),
                        condition |-> condition,
                        time_range_from |-> IntV(300), time_range_to |-> IntV(0),
                        uid |-> NoneV, dashboard_uid |-> StrV(""), panel_id |-> IntV(0)]))

\* AlertRulev9.to_json_data.  The loop body starts with
\* isinstance(trigger, Any), which raises TypeError for typing.Any, so the
\* call returns only for a rule without triggers.
AlertRulev9_to_json_data(h, r) ==
    IF Len(h[r].d.triggers.v) > 0 THEN [h |-> h, ok |-> FALSE, v |-> NoneV]
    ELSE [ok |-> TRUE] @@
         Alloc(h,
               MapV([uid |-> h[r].d.uid,
                     for |-> h[r].d.evaluate_for,
                     labels |-> h[r].d.labels,
                     annotations |-> h[r].d.annotations,
                     grafana_alert |->
                         MapV([title |-> h[r].d.title,
                               condition |-> h[r].d.condition,
                               data |-> ListV(<<>>),
                               no_data_state |-> h[r].d.no_data_alert_state,
                               exec_err_state |-> h[r].d.error_alert_state])]))

(***************************************************************************)
(* Alert scenarios: targets, conditions and an expression are built, then  *)
(* a rule is constructed from a list of triggers over them and serialized. *)
(***************************************************************************)
MaxTriggers == 2

AnAlertTarget(r) ==
    ObjV("Target", [expr |-> StrV("up"), format |-> StrV("time_series"),
                    hide |-> BoolV(FALSE), legend_format |-> StrV(""),
                    interval |-> StrV(""), interval_factor |-> IntV(2),
                    metric |-> StrV(""), ref_id |-> StrV(r), step |-> IntV(10),
                    target |-> StrV(""), instant |-> BoolV(FALSE),
                    datasource |-> StrV("ds-" \o r)])

ACondition(o, t, tr) ==
    ObjV("AlertCondition",
         [target |-> t,
          evaluator |-> ObjV("Evaluator", [type |-> StrV("gt"),
                                           params |-> ListV(<<IntV(1)>>)]),
          time_range |-> tr, operator |-> StrV(o), reducer_type |-> StrV("last"),
          use_new_alerts |-> BoolV(FALSE), type_ |-> StrV("query")])

\* The objects a caller built: three targets (one without refId), a fresh
\* condition, a condition that already has a target and a time range, and
\* an expression.
AlertObjects ==
    <<AnAlertTarget("A"), AnAlertTarget("B"), AnAlertTarget(""),
      ACondition("and", NoneV, NoneV),
      ACondition("or", AnAlertTarget("Z"),
                 ObjV("TimeRange", [from_time |-> StrV("5m"), to_time |-> StrV("now")])),
      ObjV("AlertExpression", [ref_id |-> StrV("B"), expression |-> StrV("A"),
                               conditions |-> ListV(<<>>)])>>

\* A trigger is spelled by the positions of its objects in AlertObjects:
\* <<t, c>> is the tuple (t, c) and <<x>> the object x itself.
V8Elements == {<<t, c>> : t \in 1..3, c \in 4..5} \cup {<<1>>}
V9Elements == {<<1>>, <<2>>, <<6>>}

AlertInputs ==
    {[op |-> "AlertRulev8", objs |-> AlertObjects, triggers |-> ts, condition |-> NoneV] :
        ts \in Strings(V8Elements, MaxTriggers)}
    \cup {[op |-> "AlertRulev9", objs |-> AlertObjects, triggers |-> ts, condition |-> StrV(c)] :
            ts \in Strings(V9Elements, MaxTriggers), c \in {"B", "Z"}}

\* The heap after the objects were built, with the references to them.
AlertHeap(i) == AllocList(<<>>, i.objs, <<>>)

TriggerList(refs, ts) ==
    ListV([k \in 1..Len(ts) |->
             IF Len(ts[k]) = 1 THEN refs[ts[k][1]]
             ELSE TupleV(<<refs[ts[k][1]], refs[ts[k][2]]>>)])

InitAlert ==
    /\ inp \in AlertInputs
    /\ heap = AlertHeap(inp).h
    /\ args = <<TriggerList(AlertHeap(inp).v.v, inp.triggers)>>
    /\ out = <<>>

\* rule = AlertRulev8(title="rule", triggers=triggers)
Call_AlertRulev8 ==
    /\ inp.op = "AlertRulev8"
    /\ out = <<>>
    /\ \E r \in {AlertRulev8_new(heap, args[1])} :
           /\ heap' = r.h
           /\ out' = <<[call |-> "AlertRulev8", ok |-> r.ok, v |-> r.v]>>
    /\ UNCHANGED <<inp, args>>

\* rule = AlertRulev9(title="rule", triggers=triggers, condition=condition)
Call_AlertRulev9 ==
    /\ inp.op = "AlertRulev9"
    /\ out = <<>>
    /\ \E r \in {AlertRulev9_new(heap, args[1], inp.condition)} :
           /\ heap' = r.h
           /\ out' = <<[call |-> "AlertRulev9", ok |-> r.ok, v |-> r.v]>>
    /\ UNCHANGED <<inp, args>>

\* rule.to_json_data() of the rule constructed before
Call_AlertRulev8_to_json_data ==
    /\ inp.op = "AlertRulev8"
    /\ Len(out) \in 1..MaxSerializations /\ out[1].ok
    /\ \E r \in {AlertRulev8_to_json_data(heap, out[1].v.v)} :
           /\ heap' = r.h
           /\ out' = Append(out, [call |-> "to_json_data", ok |-> r.ok, v |-> r.v])
    /\ UNCHANGED <<inp, args>>

Call_AlertRulev9_to_json_data ==
    /\ inp.op = "AlertRulev9"
    /\ Len(out) = 1 /\ out[1].ok
    /\ \E r \in {AlertRulev9_to_json_data(heap, out[1].v.v)} :
           /\ heap' = r.h
           /\ out' = Append(out, [call |-> "to_json_data", ok |-> r.ok, v |-> r.v])
    /\ UNCHANGED <<inp, args>>

(***************************************************************************)
(* Template: the constructor derives current_ from type_, query, default   *)
(* and options.  query, default and the text and value of an option are    *)
(* strings spelled by their characters.                                    *)
(***************************************************************************)
\* s.split(","), cur being the piece being read and acc the pieces before.
RECURSIVE SplitComma(_, _, _)
SplitComma(s, cur, acc) ==
    IF s = <<>> THEN Append(acc, cur)
    ELSE IF Head(s) = "," THEN SplitComma(Tail(s), <<>>, Append(acc, cur))
    ELSE SplitComma(Tail(s), Append(cur, Head(s)), acc)

\* option = {...}; if is_default: self.current_ = option;
\* self.options.append(option)
AddOption(h, a, value) ==
    [Append(h, DictObj(<<"selected", "text", "value">>,
                       [selected |-> BoolV(StrV(value) = h[a].d.default),
                        text |-> StrV(value), value |-> StrV(value)]))
        EXCEPT ![a].d.options = ListV(Append(@.v, RefV(Len(h) + 1))),
               ![a].d.current_ = IF StrV(value) = h[a].d.default
                                 THEN RefV(Len(h) + 1) ELSE @]

RECURSIVE FillOptions(_, _, _, _)
FillOptions(h, a, values, i) ==
    IF i > Len(values) THEN h
    ELSE FillOptions(AddOption(h, a, values[i]), a, values, i + 1)

\* option.get("selected")
GetSelected(h, o) == IF HasKey(h, o, "selected") THEN h[o].d.selected ELSE NoneV

\* The loop over self.options with the break left out: the last selected
\* option wins.
RECURSIVE SelectOption_Last(_, _, _)
SelectOption_Last(h, a, i) ==
    IF i > Len(h[a].d.options.v) THEN h
    ELSE SelectOption_Last(IF Truthy(GetSelected(h, h[a].d.options.v[i].v))
                           THEN [h EXCEPT ![a].d.current_ = h[a].d.options.v[i]]
                           ELSE h, a, i + 1)

\* for option in self.options: if option.get("selected"):
\* self.current_ = option; break
RECURSIVE SelectOption(_, _, _)
SelectOption(h, a, i) ==
    IF i > Len(h[a].d.options.v) THEN h
    ELSE IF Truthy(GetSelected(h, h[a].d.options.v[i].v))
    THEN [h EXCEPT ![a].d.current_ = h[a].d.options.v[i]]
    ELSE SelectOption(h, a, i + 1)

\* self.current_ = {"selected": bool(self.default), ...} of the other types
DefaultCurrent(h, a) ==
    [Append(h, DictObj(<<"selected", "text", "value", "tags">>,
                       [selected |-> BoolV(h[a].d.default \notin {NoneV, StrV(<<>>)}),
                        text |-> h[a].d.default, value |-> h[a].d.default,
                        tags |-> ListV(<<>>)]))
        EXCEPT ![a].d.current_ = RefV(Len(h) + 1)]

\* The body of Template.__init__ after super().__init__(**data).
DeriveCurrent(h, a) ==
    IF h[a].d.type_ = StrV("custom")
    THEN (IF h[a].d.options.v = <<>>
          THEN FillOptions(h, a, SplitComma(h[a].d.query.v, <<>>, <<>>), 1)
          ELSE SelectOption(h, a, 1))
    ELSE DefaultCurrent(h, a)

Derived(r) == [h |-> DeriveCurrent(r.h, r.v.v), ok |-> TRUE, v |-> r.v]

\* Template(name="var", query=query, default=default, type=type_,
\* options=options): the instance gets a list of its own that holds the
\* caller's option dicts, and an empty dict of its own as current_.
Template_new(h, type_, query, default, options) ==
    Derived(Alloc(h, ObjV("Template",
        [name |-> StrV("var"), query |-> query, current_ |-> MapV(EmptyMap),
         default |-> default, data_source |-> NoneV, label |-> NoneV,
         all_value |-> NoneV, include_all |-> BoolV(FALSE), multi |-> BoolV(FALSE),
         options |-> options, regex |-> NoneV, use_tags |-> BoolV(FALSE),
         tags_query |-> NoneV, tag_values_query |-> NoneV, refresh |-> IntV(1),
         type_ |-> type_, hide |-> IntV(0), sort |-> IntV(1), auto |-> BoolV(FALSE),
         auto_count |-> IntV(30), auto_min |-> StrV("10s")])))

Template_to_json_data(h, a) ==
    Alloc(h, EntityJson(h, a,
        <<(<<"allValue", "all_value">>), (<<"current", "current_">>),
          (<<"datasource", "data_source">>), (<<"hide", "hide">>),
          (<<"includeAll", "include_all">>), (<<"label", "label">>),
          (<<"multi", "multi">>), (<<"name", "name">>), (<<"options", "options">>),
          (<<"query", "query">>), (<<"refresh", "refresh">>), (<<"regex", "regex">>),
          (<<"sort", "sort">>), (<<"type", "type_">>), (<<"useTags", "use_tags">>),
          (<<"tagsQuery", "tags_query">>), (<<"tagValuesQuery", "tag_values_query">>),
          (<<"auto", "auto">>), (<<"auto_min", "auto_min">>),
          (<<"auto_count", "auto_count">>)>>))

(***************************************************************************)
(* Template scenarios: the caller builds option dicts, constructs a        *)
(* Template, changes the instance or one of its options, and serializes.   *)
(***************************************************************************)
MaxQueryLen == 3
MaxOptions == 2

AnOption(sel, text) == MapV([selected |-> BoolV(sel), text |-> StrV(text), value |-> StrV(text)])

\* Options with the selected flag set, cleared or missing.
OptionChoices ==
    {AnOption(TRUE, <<"a">>), AnOption(TRUE, <<"b">>), AnOption(FALSE, <<"a">>),
     MapV([text |-> StrV(<<"c">>), value |-> StrV(<<"c">>)])}

TemplateDefaults == {NoneV, StrV(<<>>), StrV(<<"a">>), StrV(<<"b">>)}

TemplateInputs ==
    {[op |-> "Template", type_ |-> StrV(ty), query |-> StrV(q), default |-> d, options |-> <<>>] :
        ty \in {"custom", "query"}, q \in Strings({"a", "b", ","}, MaxQueryLen),
        d \in TemplateDefaults}
    \cup {[op |-> "Template", type_ |-> StrV(ty), query |-> StrV(<<"a", ",", "b">>),
           default |-> d, options |-> os] :
            ty \in {"custom", "query"}, d \in {NoneV, StrV(<<"a">>)},
            os \in Strings(OptionChoices, MaxOptions) \ {<<>>}}

InitTemplate ==
    /\ inp \in TemplateInputs
    /\ heap = AllocList(<<>>, inp.options, <<>>).h
    /\ args = <<AllocList(<<>>, inp.options, <<>>).v>>
    /\ out = <<>>

\* template = Template(name="var", query=..., default=..., type=..., options=...)
Call_Template ==
    /\ inp.op = "Template"
    /\ out = <<>>
    /\ \E r \in {Template_new(heap, inp.type_, inp.query, inp.default, args[1])} :
           /\ heap' = r.h
           /\ out' = <<[call |-> "Template", ok |-> r.ok, v |-> r.v]>>
    /\ UNCHANGED <<inp, args>>

TemplateChanging ==
    /\ inp.op = "Template"
    /\ out # <<>>
    /\ Len(out) < MaxCalls
    /\ out[Len(out)].call # "to_json_data"

\* template.default = x, template.query = x, template.type_ = x or
\* template.options = []
Assign_Template_field ==
    /\ TemplateChanging
    /\ \E c \in {[f |-> "default", x |-> StrV(<<"b">>)], [f |-> "default", x |-> NoneV],
                 [f |-> "query", x |-> StrV(<<"b">>)], [f |-> "type_", x |-> StrV("query")],
                 [f |-> "type_", x |-> StrV("custom")], [f |-> "options", x |-> ListV(<<>>)]} :
           /\ heap' = [heap EXCEPT ![out[1].v.v].d[c.f] = c.x]
           /\ out' = Append(out, [call |-> "setattr", ok |-> TRUE, v |-> NoneV])
    /\ UNCHANGED <<inp, args>>

\* template.options[i][k] = x
Set_Template_option_item ==
    /\ TemplateChanging
    /\ \E i \in 1..Len(heap[out[1].v.v].d.options.v) :
       \E c \in {[k |-> "selected", x |-> BoolV(FALSE)], [k |-> "text", x |-> StrV(<<"z">>)]} :
           /\ heap' = SetItem(heap, heap[out[1].v.v].d.options.v[i].v, c.k, c.x)
           /\ out' = Append(out, [call |-> "setitem", ok |-> TRUE,
                                  v |-> heap[out[1].v.v].d.options.v[i]])
    /\ UNCHANGED <<inp, args>>

\* template.to_json_data()
Call_Template_to_json_data ==
    /\ inp.op = "Template"
    /\ out # <<>>
    /\ out[Len(out)].call # "to_json_data"
    /\ \E r \in {Template_to_json_data(heap, out[1].v.v)} :
           /\ heap' = r.h
           /\ out' = Append(out, [call |-> "to_json_data", ok |-> TRUE, v |-> r.v])
    /\ UNCHANGED <<inp, args>>

(***************************************************************************)
(* Dashboard.to_json_data, of the title, rows and panels of a dashboard.   *)
(***************************************************************************)
\* The warnings of one call: the branch taken when both panels and rows are
\* populated is "pass", so none is issued on either path.
Dashboard_warnings(h, d) ==
    IF h[d].d.panels.v # <<>> /\ h[d].d.rows.v # <<>> THEN <<>> ELSE <<>>

\* The same with "panels": self.panels whatever the rows are.
Dashboard_to_json_data_KeepPanels(h, d) ==
    Alloc(h, MapV([panels |-> h[d].d.panels,
                   rows |-> h[d].d.rows,
                   title |-> h[d].d.title]))

Dashboard_to_json_data(h, d) ==
    Alloc(h, MapV([panels |-> IF h[d].d.rows.v = <<>> THEN h[d].d.panels ELSE ListV(<<>>),
                   rows |-> h[d].d.rows,
                   title |-> h[d].d.title]))

InitDashboardJson ==
    /\ inp \in DashboardInputs
    /\ heap = TreeHeap(inp)
    /\ args = <<RefV(1)>>
    /\ out = <<>>

\* dashboard.to_json_data(), once or again.
Call_Dashboard_to_json_data ==
    /\ inp.op = "dashboard"
    /\ Len(out) < MaxSerializations
    /\ \E r \in {Dashboard_to_json_data(heap, args[1].v)} :
           /\ heap' = r.h
           /\ out' = Append(out, [call |-> "to_json_data", ok |-> TRUE, v |-> r.v,
                                   warnings |-> Dashboard_warnings(heap, args[1].v)])
    /\ UNCHANGED <<inp, args>>

(***************************************************************************)
(* AlertCondition.to_json_data called by itself, and                       *)
(* AlertExpression.to_json_data, which serializes its conditions.          *)
(***************************************************************************)
\* for condition in self.conditions: condition.use_new_alerts = True; if
\* condition.target is None: condition.target = Any(ref_id=self.expression),
\* which raises TypeError (typing.Any cannot be instantiated);
\* conds.append(condition.to_json_data()).  Result [h, ok, v], v the conds.
RECURSIVE ExpressionConditions(_, _, _, _), ExpressionCondition(_, _, _, _)
ExpressionCondition(h, cs, i, conds) ==
    IF h[cs[i].v].d.target = NoneV THEN [h |-> h, ok |-> FALSE, v |-> conds]
    ELSE ExpressionConditions(h, cs, i + 1,
                              Append(conds, AlertCondition_to_json_data(h, cs[i].v)))

ExpressionConditions(h, cs, i, conds) ==
    IF i > Len(cs) THEN [h |-> h, ok |-> TRUE, v |-> conds]
    ELSE ExpressionCondition([h EXCEPT ![cs[i].v].d.use_new_alerts = BoolV(TRUE)],
                             cs, i, conds)

\* The dict AlertExpression.to_json_data returns around the conds.
ExpressionJson(f, conds) ==
    MapV([refId |-> f.ref_id,
          queryType |-> StrV(""),
          relativeTimeRange |-> MapV([from |-> IntV(0), to |-> IntV(0)]),
          datasourceUid |-> StrV("-100"),
          model |-> MapV([conditions |-> ListV(conds),
                          datasource |-> MapV([type |-> StrV("__expr__"),
                                               uid |-> StrV("-100")]),
                          expression |-> f.expression,
                          hide |-> f.hide,
                          intervalMs |-> f.interval_ms,
                          maxDataPoints |-> f.max_data_points,
                          refId |-> f.ref_id,
                          type |-> f.expression_type,
                          reducer |-> f.reduce_function,
                          settings |-> MapV([mode |-> f.reduce_mode,
                                             replaceWithValue |-> f.reduce_replace_with]),
                          downsampler |-> f.resample_downsampler,
                          upsampler |-> f.resample_upsampler,
                          window |-> f.resample_window])])

ExpressionResult(r, f) ==
    [h |-> r.h, ok |-> r.ok, v |-> IF r.ok THEN ExpressionJson(f, r.v) ELSE StrV("TypeError")]

AlertExpression_to_json_data(h, e) ==
    ExpressionResult(ExpressionConditions(h, h[e].d.conditions.v, 1, <<>>), h[e].d)

MaxConditions == 2

\* Conditions old and new, with and without a target (one target has the
\* empty refId) and a time range.
Conditions ==
    {[ACondition("and", t, tr) EXCEPT !.v.use_new_alerts = BoolV(u)] :
        t \in {NoneV, AnAlertTarget("A"), AnAlertTarget("")},
        tr \in {NoneV, ObjV("TimeRange", [from_time |-> StrV("5m"), to_time |-> StrV("now")])},
        u \in BOOLEAN}

AnExpression(cs) ==
    ObjV("AlertExpression",
         [ref_id |-> StrV("B"), expression |-> StrV("A"), conditions |-> ListV(cs),
          expression_type |-> StrV("classic_conditions"), hide |-> BoolV(FALSE),
          interval_ms |-> IntV(1000), max_data_points |-> IntV(43200),
          reduce_function |-> StrV("mean"), reduce_mode |-> StrV("strict"),
          reduce_replace_with |-> IntV(0), resample_window |-> StrV("10s"),
          resample_downsampler |-> StrV("mean"), resample_upsampler |-> StrV("fillna")])

ConditionInputs ==
    {[op |-> "AlertCondition", obj |-> c] : c \in Conditions}
    \cup {[op |-> "AlertExpression", obj |-> AnExpression(cs)] :
            cs \in Strings(Conditions, MaxConditions)}

InitCondition ==
    /\ inp \in ConditionInputs
    /\ heap = Alloc(<<>>, inp.obj).h
    /\ args = <<RefV(1)>>
    /\ out = <<>>

\* condition.to_json_data()
Call_AlertCondition_to_json_data ==
    /\ inp.op = "AlertCondition"
    /\ out = <<>>
    /\ out' = <<[call |-> "to_json_data", ok |-> TRUE,
                 v |-> AlertCondition_to_json_data(heap, args[1].v)]>>
    /\ UNCHANGED <<heap, inp, args>>

\* expression.to_json_data()
Call_AlertExpression_to_json_data ==
    /\ inp.op = "AlertExpression"
    /\ out = <<>>
    /\ \E r \in {AlertExpression_to_json_data(heap, args[1].v)} :
           /\ heap' = r.h
           /\ out' = <<[call |-> "to_json_data", ok |-> r.ok, v |-> r.v]>>
    /\ UNCHANGED <<inp, args>>

(***************************************************************************)
(* _balance_panels(panels): the spans of a row's panels.                   *)
(***************************************************************************)
TOTAL_SPAN == 12

\* sum(panel.span if panel.span else 0 for panel in panels)
RECURSIVE allotted_spans(_, _)
allotted_spans(h, ps) ==
    IF ps = <<>> THEN 0
    ELSE (IF h[Head(ps)].d.span \in {NoneV, IntV(0)} THEN 0 ELSE h[Head(ps)].d.span.v)
         + allotted_spans(h, Tail(ps))

\* len(no_span_set) or 1
NoSpanCount(h, ps) ==
    IF \A i \in 1..Len(ps) : h[ps[i]].d.span # NoneV THEN 1
    ELSE Cardinality({i \in 1..Len(ps) : h[ps[i]].d.span = NoneV})

\* The quotient rounded down instead of up.
auto_span_Floor(h, ps) == (TOTAL_SPAN - allotted_spans(h, ps)) \div NoSpanCount(h, ps)

\* math.ceil((TOTAL_SPAN - allotted_spans) / (len(no_span_set) or 1))
auto_span(h, ps) == -((allotted_spans(h, ps) - TOTAL_SPAN) \div NoSpanCount(h, ps))

\* The list comprehension: a copy with the span for a panel without one,
\* the panel itself otherwise; [h, v].
RECURSIVE BalancedFrom(_, _, _, _)
BalancedNext(c, ps, span, acc) == BalancedFrom(c.h, ps, span, Append(acc, c.v))

BalancedFrom(h, ps, span, acc) ==
    IF Len(acc) = Len(ps) THEN [h |-> h, v |-> ListV(acc)]
    ELSE IF h[ps[Len(acc) + 1]].d.span = NoneV
    THEN BalancedNext(Copy(h, ps[Len(acc) + 1], [span |-> IntV(span)]), ps, span, acc)
    ELSE BalancedFrom(h, ps, span, Append(acc, RefV(ps[Len(acc) + 1])))

balance_panels(h, ps) == BalancedFrom(h, ps, auto_span(h, ps), <<>>)

MaxBalanced == 3

\* Lists of panels without span or with span 0, 5, 7 or 12.
BalanceInputs ==
    {[op |-> "_balance_panels",
      obj |-> [j \in 1..Len(s) |->
                 ObjV("Panel", [id |-> IntV(j), title |-> StrV("panel"), span |-> s[j]])]] :
        s \in Strings({NoneV, IntV(0), IntV(5), IntV(7), IntV(TOTAL_SPAN)}, MaxBalanced)}

InitBalance ==
    /\ inp \in BalanceInputs
    /\ \E r \in {AllocList(<<>>, inp.obj, <<>>)} :
          /\ heap = r.h
          /\ args = <<r.v>>
    /\ out = <<>>

\* _balance_panels(panels)
Call_balance_panels ==
    /\ inp.op = "_balance_panels"
    /\ out = <<>>
    /\ \E r \in {balance_panels(heap, ListRefs(args[1]))} :
           /\ heap' = r.h
           /\ out' = <<[call |-> "_balance_panels", ok |-> TRUE, v |-> r.v]>>
    /\ UNCHANGED <<inp, args>>

(***************************************************************************)
(* The two file-backed variants, SqlTarget and Svg.  A file system fs maps *)
(* a path to the text of the file, or to Absent when open() fails.  A text *)
(* is a sequence of words, "{t}" the replacement field str.format fills.   *)
(* Every result carries the paths opened, in order, as reads.              *)
(***************************************************************************)
SVG_TYPE == "marcuscalidus-svg-panel"

\* raw_sql.format(**sql_params): [ok, v]; KeyError for a field not given.
FormatSql(text, params) ==
    IF \E i \in 1..Len(text.v) : text.v[i] = "{t}" /\ "t" \notin DOMAIN params.v
    THEN [ok |-> FALSE, v |-> StrV("KeyError")]
    ELSE [ok |-> TRUE,
          v |-> StrV([i \in 1..Len(text.v) |->
                        IF text.v[i] = "{t}" THEN params.v.t.v ELSE text.v[i]])]

\* SqlTarget(**data), f being the fields after super().__init__.
SqlTarget_new(h, fs, f) ==
    IF f.src_file_path = StrV("")
    THEN [h |-> Append(h, [cls |-> "SqlTarget", ks |-> <<>>, d |-> f]),
          ok |-> TRUE, v |-> RefV(Len(h) + 1), reads |-> <<>>]
    ELSE IF fs[f.src_file_path.v] = Absent
    THEN [h |-> h, ok |-> FALSE, v |-> StrV("FileNotFoundError"),
          reads |-> <<f.src_file_path>>]
    ELSE IF f.sql_params = MapV(EmptyMap)
    THEN [h |-> Append(h, [cls |-> "SqlTarget", ks |-> <<>>,
                           d |-> [f EXCEPT !.raw_sql = fs[f.src_file_path.v]]]),
          ok |-> TRUE, v |-> RefV(Len(h) + 1), reads |-> <<f.src_file_path>>]
    ELSE IF ~FormatSql(fs[f.src_file_path.v], f.sql_params).ok
    THEN [h |-> h, ok |-> FALSE, v |-> StrV("KeyError"), reads |-> <<f.src_file_path>>]
    ELSE [h |-> Append(h, [cls |-> "SqlTarget", ks |-> <<>>,
                           d |-> [f EXCEPT !.raw_sql =
                                     FormatSql(fs[f.src_file_path.v], f.sql_params).v]]),
          ok |-> TRUE, v |-> RefV(Len(h) + 1), reads |-> <<f.src_file_path>>]

SqlTarget_to_json_data(h, a) ==
    [h |-> h, ok |-> TRUE, reads |-> <<>>,
     v |-> MapV(Target_to_json_data(h, a).v
                @@ [rawSql |-> h[a].d.raw_sql, rawQuery |-> h[a].d.raw_query])]

\* Svg.read_file on each of the paths in turn: "" without a read for an
\* empty path, the text of the file otherwise; [ok, v, reads].
RECURSIVE read_files(_, _, _, _)
read_files(fs, paths, texts, reads) ==
    IF paths = <<>> THEN [ok |-> TRUE, v |-> texts, reads |-> reads]
    ELSE IF Head(paths) = StrV("")
    THEN read_files(fs, Tail(paths), Append(texts, StrV(<<>>)), reads)
    ELSE IF fs[Head(paths).v] = Absent
    THEN [ok |-> FALSE, v |-> texts, reads |-> Append(reads, Head(paths))]
    ELSE read_files(fs, Tail(paths), Append(texts, fs[Head(paths).v]),
                    Append(reads, Head(paths)))

\* self.panel_json({...}) with the three texts read.
SvgJson(h, p, r) ==
    IF ~r.ok THEN [h |-> h, ok |-> FALSE, v |-> StrV("FileNotFoundError"), reads |-> r.reads]
    ELSE [reads |-> r.reads]
         @@ PanelJsonOf(Alloc(h, MapV([format |-> h[p].d.format,
                                        js_code |-> r.v[1],
                                        js_init_code |-> r.v[2],
                                        svg_data |-> r.v[3],
                                        type |-> StrV(SVG_TYPE),
                                        useSVGBuilder |-> BoolV(FALSE)])), p)

Svg_to_json_data(h, fs, p) ==
    SvgJson(h, p, read_files(fs, <<h[p].d.js_code_file_path, h[p].d.js_code_init_file_path,
                                   h[p].d.svg_file_path>>, <<>>, <<>>))

\* Paths "a" and "b"; either file may be missing, "a" may hold a field.
Paths == {StrV(""), StrV("a"), StrV("b")}

FileSystems ==
    [a : {Absent, StrV(<<"select">>), StrV(<<"select", "{t}">>)},
     b : {Absent, StrV(<<"from">>)}]

SqlTargetFields(path, params) ==
    AnAlertTarget("A").v
    @@ [raw_sql |-> StrV(<<"raw">>), raw_query |-> BoolV(TRUE),
        src_file_path |-> path, sql_params |-> params]

ASvg(js, init, svg) ==
    ObjV("Svg", PanelFields @@ [format |-> StrV("none"), js_code_file_path |-> js,
                                js_code_init_file_path |-> init, svg_file_path |-> svg])

FileInputs ==
    {[op |-> "SqlTarget", fs |-> fs, obj |-> SqlTargetFields(path, params)] :
        fs \in FileSystems, path \in Paths,
        params \in {MapV(EmptyMap), MapV([t |-> StrV("u")]), MapV([s |-> StrV("u")])}}
    \cup {[op |-> "Svg", fs |-> fs, obj |-> ASvg(js, init, svg)] :
            fs \in FileSystems, js \in Paths, init \in Paths, svg \in Paths}

InitFiles ==
    /\ inp \in FileInputs
    /\ heap = (IF inp.op = "Svg" THEN Alloc(<<>>, inp.obj).h ELSE <<>>)
    /\ args = <<>>
    /\ out = <<>>

\* target = SqlTarget(srcFilePath=..., sqlParams=..., rawSql="raw")
Call_SqlTarget ==
    /\ inp.op = "SqlTarget"
    /\ out = <<>>
    /\ \E r \in {SqlTarget_new(heap, inp.fs, inp.obj)} :
           /\ heap' = r.h
           /\ out' = <<[call |-> "SqlTarget", ok |-> r.ok, v |-> r.v, reads |-> r.reads]>>
    /\ UNCHANGED <<inp, args>>

\* target.to_json_data() and svg.to_json_data(), any number of times up to
\* MaxSerializations.
Call_SqlTarget_to_json_data ==
    /\ inp.op = "SqlTarget"
    /\ out # <<>> /\ out[1].ok /\ Len(out) <= MaxSerializations
    /\ \E r \in {SqlTarget_to_json_data(heap, out[1].v.v)} :
           /\ heap' = r.h
           /\ out' = Append(out, [call |-> "to_json_data", ok |-> r.ok, v |-> r.v,
                                   reads |-> r.reads])
    /\ UNCHANGED <<inp, args>>

Call_Svg_to_json_data ==
    /\ inp.op = "Svg"
    /\ Len(out) < MaxSerializations
    /\ \E r \in {Svg_to_json_data(heap, inp.fs, 1)} :
           /\ heap' = r.h
           /\ out' = Append(out, [call |-> "to_json_data", ok |-> r.ok, v |-> r.v,
                                   reads |-> r.reads])
    /\ UNCHANGED <<inp, args>>

InitObjects == InitPanel \/ InitFiles \/ InitBalance \/ InitCondition \/ InitAlert \/ InitTemplate \/ InitDashboardJson
NextObjects ==
    \/ Call_AlertRulev8 \/ Call_AlertRulev8_to_json_data
    \/ Call_AlertRulev9 \/ Call_AlertRulev9_to_json_data
    \/ Call_Template \/ Assign_Template_field \/ Set_Template_option_item
    \/ Call_Template_to_json_data
    \/ Call_Dashboard_to_json_data
    \/ Call_AlertCondition_to_json_data \/ Call_AlertExpression_to_json_data
    \/ Call_balance_panels
    \/ Call_SqlTarget \/ Call_SqlTarget_to_json_data \/ Call_Svg_to_json_data
    \/ Call_to_json_data
SpecObjects == InitObjects /\ [][NextObjects]_vars

(***************************************************************************)
(* Claims about the alert rules.                                           *)
(***************************************************************************)
V8Serialized == inp.op = "AlertRulev8" /\ Len(out) = 2
PairsOnly == \A k \in 1..Len(inp.triggers) : Len(inp.triggers[k]) = 2
\* The fields of the target and of the condition of pair k, as constructed.
TargetOf(k) == inp.objs[inp.triggers[k][1]].v
ConditionOf(k) == inp.objs[inp.triggers[k][2]].v
RuleData == Reify(heap, out[2].v).v.grafana_alert.v.data.v
RuleOf == Reify(heap, out[1].v).v

ExpectedModel(t) ==
    MapV([expr |-> t.expr, query |-> t.expr, target |-> t.target, format |-> t.format,
          hide |-> t.hide, interval |-> t.interval, intervalFactor |-> t.interval_factor,
          legendFormat |-> t.legend_format, alias |-> t.legend_format,
          metric |-> t.metric, refId |-> t.ref_id, step |-> t.step,
          instant |-> t.instant, datasource |-> t.datasource])

ExpectedCondition(c, t) ==
    MapV([evaluator |-> MapV(c.evaluator.v),
          operator |-> MapV([type |-> c.operator]),
          query |-> MapV([params |-> ListV(<<t.ref_id>>)]),
          reducer |-> MapV([params |-> ListV(<<>>), type |-> c.reducer_type]),
          type |-> c.type_])

\* C15: to_json_data of an AlertRulev8 with n (Target, AlertCondition) pairs
\* returns n + 1 data entries: entry i has the refId and the query model of
\* target i and the rule's relative time range; the last one has refId
\* "CONDITION" and n conditions, the i-th being condition i bound to
\* target i; the rule's condition is "CONDITION".
C15_DataEntries ==
    (V8Serialized /\ PairsOnly) =>
        /\ out[2].ok
        /\ Len(RuleData) = Len(inp.triggers) + 1
        /\ \A i \in 1..Len(inp.triggers) :
              /\ RuleData[i].v.refId = TargetOf(i).ref_id
              /\ RuleData[i].v.relativeTimeRange =
                     MapV([from |-> RuleOf.time_range_from, to |-> RuleOf.time_range_to])
              /\ RuleData[i].v.model = ExpectedModel(TargetOf(i))
              /\ RuleData[Len(RuleData)].v.model.v.conditions.v[i] =
                     ExpectedCondition(ConditionOf(i), TargetOf(i))
        /\ RuleData[Len(RuleData)].v.refId = StrV("CONDITION")
        /\ Len(RuleData[Len(RuleData)].v.model.v.conditions.v) = Len(inp.triggers)
        /\ Reify(heap, out[2].v).v.grafana_alert.v.condition = StrV("CONDITION")

C15_Witness ==
    /\ V8Serialized /\ out[2].ok
    /\ inp.triggers = <<(<<1, 4>>), (<<2, 5>>)>>
    /\ Len(RuleData) = 3
    /\ RuleData[2].v.refId = StrV("B")

\* Pairs whose first element has a non-empty refId.
WellFormedTriggers ==
    PairsOnly /\ \A k \in 1..Len(inp.triggers) : TargetOf(k).ref_id # StrV("")

\* C16: constructing an AlertRulev8 fails when a trigger is no
\* (Target, AlertCondition) pair or its target has an empty refId, and
\* succeeds on well-formed pairs.
C16_MalformedTriggersRejected ==
    (inp.op = "AlertRulev8" /\ out # <<>>) => (out[1].ok <=> WellFormedTriggers)

\* The heap right before rule.to_json_data().
HeapBefore == AlertRulev8_new(AlertHeap(inp).h, args[1]).h
ConditionAt(k) == args[1].v[k].v[2].v
TargetAt(k) == args[1].v[k].v[1]
LastPairOf(a) ==
    CHOOSE k \in 1..Len(inp.triggers) :
        ConditionAt(k) = a /\ \A j \in (k + 1)..Len(inp.triggers) : ConditionAt(j) # a

\* C17: after AlertRulev8.to_json_data every condition of a trigger pair has
\* use_new_alerts true and as target the Target of the last pair it is in,
\* and nothing else of the conditions, the targets or the rule has changed.
C17_ConditionsBound ==
    (V8Serialized /\ PairsOnly) =>
        \A a \in 1..Len(HeapBefore) :
            IF \E k \in 1..Len(inp.triggers) : ConditionAt(k) = a
            THEN heap[a] = [HeapBefore[a] EXCEPT !.d.use_new_alerts = BoolV(TRUE),
                                                 !.d.target = TargetAt(LastPairOf(a))]
            ELSE heap[a] = HeapBefore[a]

C17_Witness ==
    /\ V8Serialized /\ out[2].ok
    /\ inp.triggers = <<(<<1, 4>>), (<<2, 4>>)>>
    /\ heap[ConditionAt(1)].d.target = TargetAt(2)
    /\ HeapBefore[ConditionAt(1)].d.target = NoneV
    /\ heap[ConditionAt(1)].d.use_new_alerts = BoolV(TRUE)

\* C18: to_json_data of an AlertRulev9 returns one data entry per trigger,
\* in input order, and emits the rule's condition string as it is.
C18_OneEntryPerTrigger ==
    (inp.op = "AlertRulev9" /\ Len(out) = 2) =>
        /\ out[2].ok
        /\ Len(RuleData) = Len(inp.triggers)
        /\ Reify(heap, out[2].v).v.grafana_alert.v.condition = inp.condition

(***************************************************************************)
(* Claims about Template and about Dashboard.to_json_data.                 *)
(***************************************************************************)
\* v is one of the comma-separated pieces of q.
IsPieceOf(v, q) ==
    \E i \in 1..(Len(q) + 1) : \E j \in (i - 1)..Len(q) :
        /\ SubSeq(q, i, j) = v
        /\ \A n \in i..j : q[n] # ","
        /\ i = 1 \/ q[i - 1] = ","
        /\ j = Len(q) \/ q[j + 1] = ","

IsSelected(o) == "selected" \in DOMAIN o.v /\ o.v.selected = BoolV(TRUE)

\* The current value the constructor derives from the constructor's
\* arguments; the empty mapping when no piece equals default or no option
\* is selected.
ExpectedCurrent ==
    IF inp.type_ # StrV("custom")
    THEN MapV([selected |-> BoolV(inp.default \notin {NoneV, StrV(<<>>)}),
               text |-> inp.default, value |-> inp.default, tags |-> ListV(<<>>)])
    ELSE IF inp.options = <<>>
    THEN (IF inp.default.t = "str" /\ IsPieceOf(inp.default.v, inp.query.v)
          THEN MapV([selected |-> BoolV(TRUE), text |-> inp.default, value |-> inp.default])
          ELSE MapV(EmptyMap))
    ELSE IF \E k \in 1..Len(inp.options) : IsSelected(inp.options[k])
    THEN inp.options[CHOOSE k \in 1..Len(inp.options) :
                         /\ IsSelected(inp.options[k])
                         /\ \A j \in 1..(k - 1) : ~IsSelected(inp.options[j])]
    ELSE MapV(EmptyMap)

TemplateSerialized ==
    inp.op = "Template" /\ out # <<>> /\ out[Len(out)].call = "to_json_data"
EmittedCurrent == Reify(heap, out[Len(out)].v).v.current

\* C19 as stated: whatever was changed on the instance after construction,
\* its options included, to_json_data emits the current value derived at
\* construction.
C19_AsStated == TemplateSerialized => EmittedCurrent = ExpectedCurrent

\* C19: to_json_data emits the current value derived at construction,
\* whatever was assigned to default, query, type_ or options afterwards and
\* whichever other option was changed in place; current is the selected
\* option's own dict, so only a change made in that dict shows.
C19_CurrentDerivedOnce ==
    (/\ TemplateSerialized
     /\ \A n \in 1..Len(out) :
            out[n].call = "setitem" => out[n].v # heap[out[1].v.v].d.current_)
        => EmittedCurrent = ExpectedCurrent

C19_Witness ==
    /\ TemplateSerialized
    /\ inp.type_ = StrV("custom") /\ inp.options = <<>>
    /\ inp.query = StrV(<<"a", ",", "b">>) /\ inp.default = StrV(<<"a">>)
    /\ Len(out) = 3 /\ out[2].call = "setattr"
    /\ heap[out[1].v.v].d.default = StrV(<<"b">>)
    /\ EmittedCurrent = MapV([selected |-> BoolV(TRUE), text |-> StrV(<<"a">>),
                              value |-> StrV(<<"a">>)])

\* C20: to_json_data of a dashboard that has both rows and panels succeeds
\* and issues a warning.
C20_WarnsOnRowsAndPanels ==
    (/\ inp.op = "dashboard" /\ out # <<>>
     /\ inp.obj.v.rows.v # <<>> /\ inp.obj.v.panels.v # <<>>)
        => (out[1].ok /\ out[1].warnings # <<>>)

(***************************************************************************)
(* Claims about the shape of the serialized output.                        *)
(***************************************************************************)
\* A value that is a string, number, boolean, null, list or mapping at every
\* depth: no node of it is an entity object.
RECURSIVE IsPlain(_)
IsPlain(v) ==
    /\ v.t \notin Classes
    /\ v.t = "list" => \A i \in 1..Len(v.v) : IsPlain(v.v[i])
    /\ v.t = "map" => \A k \in DOMAIN v.v : IsPlain(v.v[k])

\* C21: the value to_json_data of a dashboard or of an AlertRulev8 returns
\* is a plain nested mapping, with no entity object anywhere in it.
C21_PlainMapping ==
    \A n \in 1..Len(out) :
        (/\ inp.op \in {"dashboard", "AlertRulev8"}
         /\ out[n].call = "to_json_data" /\ out[n].ok)
            => IsPlain(Reify(heap, out[n].v))

\* The dict a dashboard's to_json_data returned.
DashboardJson == heap[out[1].v.v].d

DashboardSerialized ==
    inp.op = "dashboard" /\ out # <<>> /\ out[1].call = "to_json_data" /\ out[1].ok

\* C25: in the output of Dashboard.to_json_data panels and rows are never
\* both non-empty: with at least one row panels is the empty list, without
\* rows panels is the dashboard's panel list in order.
C25_PanelsOrRows ==
    DashboardSerialized =>
        /\ ~(DashboardJson.panels.v # <<>> /\ DashboardJson.rows.v # <<>>)
        /\ inp.obj.v.rows.v # <<>> => DashboardJson.panels = ListV(<<>>)
        /\ inp.obj.v.rows.v = <<>> =>
               /\ DashboardJson.panels = heap[1].d.panels
               /\ Reify(heap, DashboardJson.panels) = inp.obj.v.panels

\* A dashboard with a row and a panel was serialized: the panel is dropped.
C25_Witness ==
    /\ DashboardSerialized
    /\ inp.obj.v.rows.v # <<>> /\ inp.obj.v.panels.v # <<>>
    /\ DashboardJson.panels.v = <<>> /\ DashboardJson.rows.v # <<>>

\* A dashboard without rows was serialized with its two panels in order.
C25_WitnessNoRows ==
    /\ DashboardSerialized
    /\ inp.obj.v.rows.v = <<>> /\ Len(inp.obj.v.panels.v) = 2
    /\ inp.obj.v.panels.v[1] # inp.obj.v.panels.v[2]
    /\ Reify(heap, DashboardJson.panels) = inp.obj.v.panels

(***************************************************************************)
(* Claims about alert conditions and expressions.                          *)
(***************************************************************************)
ConditionSerialized == inp.op = "AlertCondition" /\ out # <<>>

\* The "query" entry of the serialized condition.
EmittedQuery == out[1].v.v.query.v

\* C26: AlertCondition.to_json_data derives query.params so: with
\* use_new_alerts true, [target refId] when a target is set and [] otherwise,
\* and the query has no model key; with use_new_alerts false, [target refId,
\* time range from, time range to] when both target and time range are set
\* and [] otherwise, and query.model is the target's JSON, {} without target.
C26_QueryParams ==
    ConditionSerialized =>
        LET c == inp.obj.v
        IN  IF c.use_new_alerts.v
            THEN /\ "model" \notin DOMAIN EmittedQuery
                 /\ EmittedQuery.params =
                        ListV(IF c.target # NoneV THEN <<c.target.v.ref_id>> ELSE <<>>)
            ELSE /\ EmittedQuery.params =
                        ListV(IF c.target # NoneV /\ c.time_range # NoneV
                              THEN <<c.target.v.ref_id, c.time_range.v.from_time,
                                     c.time_range.v.to_time>>
                              ELSE <<>>)
                 /\ "model" \in DOMAIN EmittedQuery
                 /\ c.target = NoneV => EmittedQuery.model = MapV(EmptyMap)
                 /\ c.target # NoneV =>
                        /\ EmittedQuery.model = Target_to_json_data(heap, heap[1].d.target.v)
                        /\ EmittedQuery.model.v.refId = c.target.v.ref_id
                        /\ EmittedQuery.model.v.expr = c.target.v.expr

\* An old-alert condition with target "A" and no time range was serialized:
\* no params, the target's JSON as model.
C26_Witness ==
    /\ ConditionSerialized
    /\ ~inp.obj.v.use_new_alerts.v
    /\ inp.obj.v.target # NoneV /\ inp.obj.v.time_range = NoneV
    /\ EmittedQuery.params = ListV(<<>>)
    /\ EmittedQuery.model.v.refId = StrV("A")

ExpressionSerialized == inp.op = "AlertExpression" /\ out # <<>>

\* The refId the i-th condition of the expression is to be emitted with.
ExpectedRefId(i) ==
    LET c == inp.obj.v.conditions.v[i].v
    IN  IF c.target = NoneV THEN inp.obj.v.expression ELSE c.target.v.ref_id

\* C30: AlertExpression.to_json_data sets use_new_alerts on every condition
\* and emits the conditions in input order, each with a query that has no
\* model key and whose params are [refId of its target], [expression] for a
\* condition constructed without a target.
C30_NewAlertForm ==
    ExpressionSerialized =>
        /\ out[1].ok
        /\ LET cs == heap[1].d.conditions.v
               em == out[1].v.v.model.v.conditions.v
           IN  /\ Len(em) = Len(cs)
               /\ \A i \in 1..Len(cs) :
                      /\ heap[cs[i].v].d.use_new_alerts = BoolV(TRUE)
                      /\ "model" \notin DOMAIN em[i].v.query.v
                      /\ em[i].v.query.v.params = ListV(<<ExpectedRefId(i)>>)

(***************************************************************************)
(* Claims about what the merge engine refuses to replace.                  *)
(***************************************************************************)
\* base[k] as it is after the call.
BaseNow(k) == Reify(heap, args[1]).v[k]

\* C27: in _deep_update a mapping in base is never replaced by a value that
\* is no mapping: for a key k whose base value is a mapping (an entity counts
\* by its JSON form), extra[k] = None leaves base[k] as it is, and any other
\* extra[k] that is no mapping (number, string, list) makes the merge fail
\* with an error, base[k] still being the mapping.
C27_MappingNeverReplaced ==
    (inp.op = "_deep_update" /\ out # <<>> /\ inp.extra # NoneV) =>
        \A k \in DOMAIN inp.extra.v \cap DOMAIN inp.base.v :
            (JsonOf(inp.base.v[k]).t = "map" /\ inp.extra.v[k].t # "map") =>
                /\ BaseNow(k) \in {inp.base.v[k], JsonOf(inp.base.v[k])}
                /\ out[1].ok => BaseNow(k) = JsonOf(inp.base.v[k])
                /\ inp.extra.v[k] # NoneV => ~out[1].ok

\* A merge of a list over a mapping failed and one of None over an entity
\* left the entity's mapping.
C27_Witness ==
    /\ inp.op = "_deep_update" /\ out # <<>>
    /\ \/ /\ inp.base = MapV([a |-> MapV([b |-> IntV(1)])])
          /\ inp.extra = MapV([a |-> ListV(<<IntV(1)>>)])
          /\ ~out[1].ok
          /\ BaseNow("a") = MapV([b |-> IntV(1)])
       \/ /\ inp.base = MapV([gridPos |-> AGridPos])
          /\ inp.extra = MapV([gridPos |-> NoneV])
          /\ out[1].ok
          /\ BaseNow("gridPos") = MapV(AGridPos.v)

(***************************************************************************)
(* Claims about span balancing.                                            *)
(***************************************************************************)
Balanced == inp.op = "_balance_panels" /\ out # <<>>

\* The spans the caller set, their sum, and the number of panels without.
RECURSIVE SumOf(_)
SumOf(s) == IF s = <<>> THEN 0 ELSE Head(s) + SumOf(Tail(s))

SetSpans == [j \in 1..Len(inp.obj) |->
               IF inp.obj[j].v.span = NoneV THEN 0 ELSE inp.obj[j].v.span.v]

Unset == {j \in 1..Len(inp.obj) : inp.obj[j].v.span = NoneV}

\* ceil((12 - sum of the set spans) / number of panels without span): the
\* least integer whose product with that number reaches 12 - sum.
ExpectedSpan ==
    CHOOSE c \in -(TOTAL_SPAN * MaxBalanced)..TOTAL_SPAN :
        /\ c * Cardinality(Unset) >= TOTAL_SPAN - SumOf(SetSpans)
        /\ (c - 1) * Cardinality(Unset) < TOTAL_SPAN - SumOf(SetSpans)

\* C28: _balance_panels returns a list of the same length and order as its
\* input in which every panel that had a span (0 included) keeps it and
\* every panel without span gets ceil((12 - sum of the set spans) / number
\* of panels without span); the input panels are not modified, and the
\* assigned span is at least 1 whenever the set spans sum to less than 12.
C28_BalancedSpans ==
    Balanced =>
        /\ Len(out[1].v.v) = Len(inp.obj)
        /\ \A j \in 1..Len(inp.obj) :
               LET p == heap[out[1].v.v[j].v].d
               IN  /\ p.id = inp.obj[j].v.id
                   /\ j \notin Unset => p.span = inp.obj[j].v.span
                   /\ j \in Unset =>
                          /\ p.span = IntV(ExpectedSpan)
                          /\ SumOf(SetSpans) < TOTAL_SPAN => p.span.v >= 1
        /\ \A j \in 1..Len(inp.obj) : Reify(heap, args[1].v[j]) = inp.obj[j]

\* Spans None, 5, None: both panels without span get ceil(7 / 2) = 4.
C28_Witness ==
    /\ Balanced
    /\ [j \in 1..Len(inp.obj) |-> inp.obj[j].v.span] = <<NoneV, IntV(5), NoneV>>
    /\ [j \in 1..3 |-> heap[out[1].v.v[j].v].d.span] = <<IntV(4), IntV(5), IntV(4)>>
    /\ heap[args[1].v[1].v].d.span = NoneV

(***************************************************************************)
(* Claims about the panel envelope.                                        *)
(***************************************************************************)
\* The key paths of the envelope the claim names.
EnvelopeKeyPaths ==
    {<<"cacheTimeout">>, <<"datasource">>, <<"gridPos">>, <<"links">>, <<"repeat">>,
     <<"repeatDirection">>, <<"maxPerRow">>, <<"span">>, <<"targets">>,
     <<"fieldConfig", "defaults", "thresholds", "mode">>,
     <<"fieldConfig", "defaults", "thresholds", "steps">>,
     <<"timeFrom">>, <<"timeShift">>, <<"hideTimeOverride">>}

\* to_json_data of a panel without extraJson, or of an alert list, returned.
SerializedPlain ==
    /\ out # <<>> /\ out[1].ok /\ out[1].call = "to_json_data"
    /\ inp.op = "alertlist" \/ (inp.op = "panel" /\ ExtraJson = NoneV)

GivenPaths ==
    LET ps == IF inp.op = "SqlTarget" THEN <<inp.obj.src_file_path>>
              ELSE <<inp.obj.v.js_code_file_path, inp.obj.v.js_code_init_file_path,
                     inp.obj.v.svg_file_path>>
    IN  SelectSeq(ps, LAMBDA q : q # StrV(""))

Unreadable(q) == inp.fs[q.v] = Absent

\* C23: for SqlTarget with srcFilePath and for Svg with its file paths, the
\* file is read during to_json_data, once per path per call, and never
\* during construction; when a path cannot be read to_json_data fails with
\* the I/O error, and an empty path causes no read.
C23_ReadAtSerialization ==
    (inp.op \in {"SqlTarget", "Svg"}) =>
        \A n \in 1..Len(out) :
            IF out[n].call = "SqlTarget"
            THEN out[n].ok /\ out[n].reads = <<>>
            ELSE IF \E i \in 1..Len(GivenPaths) : Unreadable(GivenPaths[i])
            THEN ~out[n].ok /\ out[n].v = StrV("FileNotFoundError")
            ELSE out[n].ok /\ out[n].reads = GivenPaths

(***************************************************************************)
(* Claims about the end of the refId candidates.                           *)
(***************************************************************************)
\* The targets constructed without refId, the refIds a caller gave, and the
\* candidates among them.
LackingIn(before) == {j \in 1..Len(before) : ~Truthy(before[j])}
ExistingIn(before) == {before[j] : j \in (1..Len(before)) \ LackingIn(before)}
UsedCandidates(existing) == {k \in 1..NumCandidates : CandidateRefId(k) \in existing}

\* What C29 says of a call on targets with the refIds before, of which the
\* caller gave those in existing and left those at the places lacking unset.
RunsOutOrAssigns(lacking, existing) ==
    IF Cardinality(lacking) > NumCandidates - Cardinality(UsedCandidates(existing))
    THEN /\ ~out[1].ok /\ out[1].v = StrV("StopIteration")
         /\ Len(out) = 1
    ELSE /\ out[1].ok
         /\ \A after \in {RefIdsAfter} :
                /\ \A j \in lacking :
                       /\ after[j].t = "letters"
                       /\ Len(after[j].v) \in {1, 2}
                       /\ after[j] \notin existing
                /\ Cardinality({after[j] : j \in lacking}) = Cardinality(lacking)

\* C29: auto_ref_ids draws from the 702 candidates A..Z, AA..ZZ: when more
\* targets lack a refId than there are candidates not used by existing
\* refIds the call fails and returns no graph; otherwise every refId it
\* assigns is one or two letters long, differs from every existing refId
\* and from every other refId it assigns.
C29_CandidatesRunOut ==
    (inp.op \in {"graph", "long graph"} /\ out # <<>>) =>
        /\ NumCandidates = 702
        /\ \A before \in {RefIdsBefore} :
               RunsOutOrAssigns(LackingIn(before), ExistingIn(before))

\* 703 targets, the first with refId "A": 702 lack a refId, 701 candidates
\* are left, and the call failed.
C29_Witness ==
    /\ inp.op = "long graph" /\ out # <<>>
    /\ Len(RefIdsBefore) = NumCandidates + 1
    /\ ExistingRefs = {LettersV(<<1>>)}
    /\ ~out[1].ok

\* 703 targets, the first with a refId that is no candidate: the last
\* target got ZZ.
C29_WitnessLast ==
    /\ inp.op = "long graph" /\ out # <<>> /\ out[1].ok
    /\ Len(RefIdsBefore) = NumCandidates + 1
    /\ RefIdsAfter[NumCandidates + 1] = LettersV(<<AlphabetSize, AlphabetSize>>)

(***************************************************************************)
(* Claims about calling to_json_data again.                                *)
(***************************************************************************)
\* The last call made.
Last(o) == o[Len(o)]

\* This step is to_json_data called again on the object the previous step
\* serialized.
SerializedAgain ==
    /\ inp.op \in {"dashboard", "panel", "AlertRulev8", "Svg", "SqlTarget"}
    /\ out # <<>> /\ Last(out).call = "to_json_data"
    /\ Len(out') = Len(out) + 1 /\ Last(out').call = "to_json_data"

\* C22: to_json_data called a second time on the same dashboard, panel or
\* AlertRulev8, the caller changing nothing in between, returns a result
\* equal to that of the first call, or fails as the first call did.
C22_Repeatable ==
    [][SerializedAgain =>
          /\ Last(out').ok = Last(out).ok
          /\ IF Last(out).ok
             THEN Reify(heap', Last(out').v) = Reify(heap, Last(out).v)
             ELSE Last(out').v = Last(out).v]_vars

\* A Heatmap whose extraJson sets cards.cardPadding was serialized twice:
\* the first call wrote into the panel's own cards, and the second call
\* returned what the first did.
C22_Witness ==
    /\ inp.op = "panel" /\ inp.panel.t = "Heatmap"
    /\ Len(out) = 2 /\ out[1].ok /\ out[2].ok
    /\ Reify(heap, heap[1].d.cards) # inp.panel.v.cards
    /\ Reify(heap, out[2].v) = Reify(heap, out[1].v)

====
